---- MODULE Spec2Model ----
(***************************************************************************)
(* Model of the request racing / failover kernels of ISTOIC:               *)
(*   - HydraVault        (key pool: getKey, reportFailure)                 *)
(*   - OmniRaceKernel    (raceStream / executeProviderStream)              *)
(*   - HanisahKernel     (streamExecute, sequential failover)              *)
(* JavaScript is single threaded: every action below is one callback (or   *)
(* one resumption of an async function) run to completion together with    *)
(* the promise reactions (microtasks) it triggers.                         *)
(***************************************************************************)
EXTENDS Integers, Sequences, FiniteSets, TLC

\* ---------------------------------------------------------------- bounds
\* largest number of locally configured credentials of one provider
MaxKeys == 2
\* largest number of text chunks one upstream stream emits
MaxChunks == 2
\* latest clock value (ms) the clock is advanced to
MaxNow == 60000
\* largest number of direct reportFailure calls
MaxFailures == 2
\* largest number of transport objects one hook instance creates
MaxPeers == 1
\* largest number of initGlobalPeer calls suspended at an await
MaxInits == 1
\* largest number of inbound connections the transports deliver
MaxConns == 2
\* largest number of messages received on one inbound connection
MaxMsgs == 2
\* largest RetryBudget the backoff delay is computed for
MaxBudget == 40

\* ------------------------------------------------------- program constants
PENALTY_DEFAULT == 30000
PENALTY_RATE_LIMIT == 300000
PENALTY_OVERLOAD == 60000
MANAGED_KEY == "server-side-managed"
NULL == "null"

Providers == {"GEMINI", "GROQ", "OPENAI", "DEEPSEEK"}
KeyNames == <<"local-key-1", "local-key-2", "local-key-3", "local-key-4">>

\* Error payloads, abstracted to the substrings of JSON.stringify(error)
\* that reportFailure looks for.  An abort error carries none of them; the
\* provider failures of a race are taken to be rate limit answers.
ABORT_ERROR == {"abort"}
RaceErrors == {{"429"}}
SeqErrors == {{}, {"429"}, {"503"}}

VARIABLES
    now,            \* Date.now()
    vault,          \* HydraVault.vault : provider -> sequence of KeyRecord
    counters,       \* HydraVault.counters : provider -> round robin cursor
    \* ---- one OmniRaceKernel.raceStream call
    rPc,            \* position of the raceStream generator
    racer,          \* per RACE_CONFIG entry: state of executeProviderStream
    winnerDeclared, \* the flag of the racePromise executor
    winner,         \* racer whose then-handler set winnerDeclared (0: none)
    resolveCount,   \* number of resolve(iterator) calls made
    failureCount,   \* the counter of the racePromise executor
    racePromise,    \* "pending", "resolved" or the rejection message
    aborted,        \* controller.signal.aborted
    timer,          \* the hard timeout: "unset", "armed", "fired"
    rOut,           \* chunks the generator has yielded to its consumer
    consumed,       \* number of chunks pulled from the winner's stream
    rReports,       \* GLOBAL_VAULT.reportFailure calls made by the race
    firstEmitter,   \* racer whose upstream emitted the first chunk (0: none)
    frozen,         \* the upstreams have stopped responding for good
    \* ---- one HanisahKernel.streamExecute call
    sPc,            \* position of the streamExecute generator
    plan,           \* the de-duplicated candidate list
    sI,             \* loop index i (1-based)
    sKey,           \* key of the candidate being tried
    sPath,          \* branch it runs: "proxy", "gemini" or "openai"
    attempts,       \* the attempts counter
    hasYielded,     \* the hasYielded flag
    sSignal,        \* configOverride.signal.aborted
    fullText,       \* text accumulated from the stream being read
    emittedS,       \* chunks the stream being read has delivered
    sOut,           \* chunks the generator has yielded to its consumer
    history,        \* HanisahKernel.history
    sLog,           \* per plan entry: the key used and what became of it
    netCalls,       \* network requests issued by the call
    sReports,       \* GLOBAL_VAULT.reportFailure calls made by the call
    \* ---- HydraVault called directly
    hvLast,         \* the last call: method, arguments, result, pool before it
    hvRun,          \* per provider: keys returned by consecutive getKey calls
    hvCool,         \* per (provider, key): when reportFailure last cooled it
    hvCount,        \* number of reportFailure calls made
    hvManaged,      \* number of them made with the managed sentinel
    \* ---- one useGlobalPeer hook instance
    mounted,        \* the effects of the hook are set up (not cleaned up)
    status,         \* the `status` state
    statusRef,      \* statusRef.current, synced by an effect after render
    retryCount,     \* retryCount.current
    pTimers,        \* pending setTimeout callbacks of scheduleReconnect
    retryTimeout,   \* retryTimeout.current: index into pTimers, 0 if not pending
    peers,          \* the Peer objects created so far
    peerRef,        \* peerRef.current: index into peers, 0 for null
    peerId,         \* the `peerId` state
    pInits,         \* initGlobalPeer calls suspended at an await: overrideId
    pLast,          \* the callback that ran last
    pFires,         \* retry timer firings since retryCount was last set to 0,
                    \* counted up to MAX_FATAL_RETRIES + 2
    pExpect,        \* the value retryCount was last set to, plus the retry timer
                    \* firings since
    pCap,           \* how many transports and suspended calls a run goes up to
    watchdog,       \* healthCheckInterval.current is a pending interval
    \* ---- inbound connections of the hook's transports
    conns,          \* the DataConnection objects the connection handler saw
    incoming,       \* the `incomingConnection` state
    \* ---- one HanisahKernel.buildContext call
    cPc,            \* "idle", "loop" or "returned"
    cHistory,       \* the history argument: content lengths, oldest first
    cStored,        \* this.history at the time of the call
    cMsg,           \* currentMsg.length
    cPrompt,        \* systemPrompt.length
    cLimit,         \* the limit argument
    cI,             \* the loop index i (1-based; 0 when the walk is over)
    cUsed,          \* usedTokens
    cSend,          \* messagesToSend: indices into cHistory
    \* ---- the backoff delay as a function of RetryBudget
    bPhase,         \* "input", "computed" or "next"
    bN,             \* the RetryBudget
    bDelay,         \* the delay computed for bN
    bPrev,          \* the delay computed for bN - 1
    \* ---- one HanisahKernel object over several streamExecute calls
    sCalls,         \* streamExecute calls started on the object
    \* ---- one fetchWithBackoff call of ApiProxyService.generateText
    fPc,            \* "idle", "fetching", "waiting", "returned" or "thrown"
    fRetries,       \* the `retries` parameter of the innermost invocation
    fBackoff,       \* the `backoffMs` parameter of the innermost invocation
    fArgs,          \* the arguments of the outermost invocation
    fOutcomes,      \* how each fetch() made so far has settled, in order
    fWaits,         \* the delays passed to setTimeout so far, in order
    fResult,        \* what the call returned or threw
    \* ---- one NeuralLinkService object
    isConnecting,   \* NeuralLinkService.isConnecting
    isConnected,    \* NeuralLinkService.isConnected
    lSetups,        \* per connect call that got past the guards: its session setup
    lSession,       \* NeuralLinkService.session: the setup it came from (0: null)
    lStatus,        \* the last value passed to config.onStatusChange
    \* ---- one LiveSessionProvider
    vStatus,        \* the `status` state
    vIsLive,        \* the `isLive` state
    vWatchdog,      \* watchdogRef.current: whether its timeout is pending, and the
                    \* `status` its callback closed over
    vPending,       \* startSession calls awaiting getSystemInstruction
    vSocket,        \* the service's session: "none", "dialing" or "active"
    vStarts,        \* startSession calls that got past the isLive guard
    vLast           \* the handler that ran last

vaultVars == <<now, vault, counters>>
raceVars == <<rPc, racer, winnerDeclared, winner, resolveCount, failureCount,
              racePromise, aborted, timer, rOut, consumed, rReports,
              firstEmitter, frozen>>
seqVars == <<sPc, plan, sI, sKey, sPath, attempts, hasYielded, sSignal,
             fullText, emittedS, sOut, history, sLog, netCalls, sReports>>
hvVars == <<hvLast, hvRun, hvCool, hvCount, hvManaged>>
peerVars == <<mounted, status, statusRef, retryCount, pTimers, retryTimeout, peers,
              peerRef, peerId, pInits, pLast, pFires, pExpect, pCap, watchdog>>
inboundVars == <<conns, incoming>>
ctxVars == <<cPc, cHistory, cStored, cMsg, cPrompt, cLimit, cI, cUsed, cSend>>
backoffVars == <<bPhase, bN, bDelay, bPrev>>
callVars == <<sCalls>>
fetchVars == <<fPc, fRetries, fBackoff, fArgs, fOutcomes, fWaits, fResult>>
linkVars == <<isConnecting, isConnected, lSetups, lSession, lStatus>>
liveVars == <<vStatus, vIsLive, vWatchdog, vPending, vSocket, vStarts, vLast>>
moreVars == <<callVars, fetchVars, linkVars, liveVars>>
restVars == <<hvVars, peerVars, backoffVars, inboundVars, ctxVars, moreVars>>
\* what no callback of the hook's supervisor touches
peerFrame == <<vaultVars, raceVars, seqVars, hvVars, backoffVars, inboundVars, ctxVars,
               moreVars, pCap>>
vars == <<vaultVars, raceVars, seqVars, restVars>>

\* ------------------------------------------------------------- HydraVault
\* SECURITY_MATRIX.cloak / decloak: an injective encoding and its inverse
Cloak(k) == <<"cloaked", k>>
Decloak(c) == c[2]

KeyRecord(k) ==
    [cloakedKey |-> Cloak(k), status |-> "ACTIVE", fails |-> 0, cooldownUntil |-> 0]

\* refreshPools: the local keys of the provider, else the virtual key in
\* secure mode, else nothing
RefreshPools(nkeys, secure) ==
    [p \in Providers |->
        IF nkeys[p] > 0 THEN [i \in 1..nkeys[p] |-> KeyRecord(KeyNames[i])]
        ELSE IF secure THEN <<KeyRecord(MANAGED_KEY)>>
        ELSE <<>>]

IsActive(k) == k.status = "ACTIVE"

\* getKey, "Auto-Heal"
AutoHeal_Strict(pool, t) ==
    [i \in DOMAIN pool |->
        IF pool[i].status = "COOLDOWN" /\ pool[i].cooldownUntil < t
        THEN [pool[i] EXCEPT !.status = "ACTIVE", !.fails = 0]
        ELSE pool[i]]
AutoHeal(pool, t) ==
    [i \in DOMAIN pool |->
        IF pool[i].status = "COOLDOWN" /\ pool[i].cooldownUntil <= t
        THEN [pool[i] EXCEPT !.status = "ACTIVE", !.fails = 0]
        ELSE pool[i]]

\* getKey: the key returned and the vault state it leaves
GetKey_NoAdvance(v, c, p, t) ==
    LET pool == v[p] IN
    IF Len(pool) = 0 THEN [key |-> NULL, vault |-> v, counters |-> c]
    ELSE
      LET healed == AutoHeal(pool, t)
          activeKeys == SelectSeq(healed, IsActive)
          v2 == [v EXCEPT ![p] = healed]
      IN IF Len(activeKeys) = 0 THEN [key |-> NULL, vault |-> v2, counters |-> c]
         ELSE
           LET currentIndex == c[p] % Len(activeKeys)
               selectedKey == activeKeys[currentIndex + 1]
           IN [key |-> Decloak(selectedKey.cloakedKey), vault |-> v2, counters |-> c]
GetKey(v, c, p, t) ==
    LET pool == v[p] IN
    IF Len(pool) = 0 THEN [key |-> NULL, vault |-> v, counters |-> c]
    ELSE
      LET healed == AutoHeal(pool, t)
          activeKeys == SelectSeq(healed, IsActive)
          v2 == [v EXCEPT ![p] = healed]
      IN IF Len(activeKeys) = 0 THEN [key |-> NULL, vault |-> v2, counters |-> c]
         ELSE
           LET currentIndex == c[p] % Len(activeKeys)
               selectedKey == activeKeys[currentIndex + 1]
           IN [key |-> Decloak(selectedKey.cloakedKey),
               vault |-> v2,
               counters |-> [c EXCEPT ![p] = (currentIndex + 1) % Len(activeKeys)]]

\* reportFailure: the penalty chosen from the error text
PenaltyMs(err) ==
    IF err \cap {"429", "quota", "limit"} # {} THEN PENALTY_RATE_LIMIT
    ELSE IF err \cap {"503", "overloaded"} # {} THEN PENALTY_OVERLOAD
    ELSE PENALTY_DEFAULT

\* reportFailure: pool.find(k => k.cloakedKey === searchHash), 0 if absent
FindRecord(pool, k) ==
    LET hits == {i \in DOMAIN pool : pool[i].cloakedKey = Cloak(k)}
    IN IF hits = {} THEN 0 ELSE CHOOSE i \in hits : \A j \in hits : i <= j

\* reportFailure: the vault it leaves
ReportFailure_NoExemption(v, p, k, err, t) ==
    LET idx == FindRecord(v[p], k) IN
    IF idx = 0 THEN v
    ELSE [v EXCEPT ![p][idx] =
             [@ EXCEPT !.fails = @ + 1,
                       !.status = "COOLDOWN",
                       !.cooldownUntil = t + PenaltyMs(err)]]
ReportFailure_CountOnly(v, p, k, err, t) ==
    IF k = MANAGED_KEY THEN v
    ELSE LET idx == FindRecord(v[p], k) IN
         IF idx = 0 THEN v
         ELSE [v EXCEPT ![p][idx] =
                  [@ EXCEPT !.fails = @ + 1, !.cooldownUntil = t + PenaltyMs(err)]]
ReportFailure(v, p, k, err, t) ==
    IF k = MANAGED_KEY THEN v
    ELSE LET idx == FindRecord(v[p], k) IN
         IF idx = 0 THEN v
         ELSE [v EXCEPT ![p][idx] =
                  [@ EXCEPT !.fails = @ + 1,
                            !.status = "COOLDOWN",
                            !.cooldownUntil = t + PenaltyMs(err)]]

\* the record of a credential in the pool of a provider (for the properties)
RecordOf(p, k) == vault[p][FindRecord(vault[p], k)]
InPool(p, k) == FindRecord(vault[p], k) # 0

\* ---------------------------------------------------------- OmniRaceKernel
RACE_CONFIG == <<
    [name |-> "GOOGLE",      provider |-> "GEMINI"],
    [name |-> "GROQ_70B",    provider |-> "GROQ"],
    [name |-> "GROQ_8B",     provider |-> "GROQ"],
    [name |-> "OPENAI_MINI", provider |-> "OPENAI"],
    [name |-> "DEEPSEEK",    provider |-> "DEEPSEEK"] >>
Racers == DOMAIN RACE_CONFIG
racerCount == Len(RACE_CONFIG)

ERR_ALL_FAILED == "ALL_ENGINES_FAILED"
ERR_TIMEOUT == "OMNI_RACE_TIMEOUT"
RACE_FAILED_TEXT == "Omni-Race Failed: All cognitive nodes rejected the request or timed out."


\* providers whose SDK call is given the AbortSignal (the OpenAI compatible
\* ones); generateContentStream of the Gemini SDK is not
Abortable(i) == RACE_CONFIG[i].provider # "GEMINI"

\* raceStream, forEach: executeProviderStream runs synchronously up to its
\* first await for every entry, in order; each one calls getKey
RECURSIVE AcquireAll(_, _, _, _, _)
AcquireAll(i, v, c, t, keys) ==
    IF i > racerCount THEN [vault |-> v, counters |-> c, keys |-> keys]
    ELSE LET g == GetKey(v, c, RACE_CONFIG[i].provider, t)
         IN AcquireAll(i + 1, g.vault, g.counters, t, Append(keys, g.key))

\* then-handler: if (!winnerDeclared)
WinnerGuard_Always(wd) == TRUE
WinnerGuard(wd) == ~wd
\* catch-handler: if (failureCount >= racerCount && !winnerDeclared)
AllFailed_OffByOne(fc, wd) == fc >= racerCount - 1 /\ ~wd
AllFailed(fc, wd) == fc >= racerCount /\ ~wd
\* hard timeout: if (!winnerDeclared)
TimeoutGuard(wd) == ~wd
\* finally { controller.abort() }: the value of signal.aborted afterwards
FinallyAbort_Skip(a) == a
FinallyAbort(a) == TRUE
\* the chunk the catch block of raceStream yields for a rejection reason
CatchChunk(reason) == [src |-> 0, text |-> RACE_FAILED_TEXT]
\* a chunk forwarded from the stream of racer w
WinnerChunk(w, n) == [src |-> w, text |-> n]

\* reject(new Error(reason)): settles racePromise if it is still pending;
\* the generator, suspended at `await racePromise`, resumes in its catch
\* block and yields the failure chunk to the pending next() of the consumer
Reject(reason) ==
    IF racePromise = "pending"
    THEN [promise |-> reason, out |-> Append(rOut, CatchChunk(reason)), pc |-> "failYield"]
    ELSE [promise |-> racePromise, out |-> rOut, pc |-> rPc]

\* the .catch(err => ...) reaction of one racer's promise
CatchHandler ==
    /\ failureCount' = failureCount + 1
    /\ LET r == IF AllFailed(failureCount + 1, winnerDeclared)
                THEN Reject(ERR_ALL_FAILED)
                ELSE [promise |-> racePromise, out |-> rOut, pc |-> rPc]
       IN /\ racePromise' = r.promise
          /\ rOut' = r.out
          /\ rPc' = r.pc

\* a GLOBAL_VAULT.reportFailure call of racer i, as the race makes it
RaceReport(i, err) ==
    /\ vault' = ReportFailure(vault, RACE_CONFIG[i].provider, racer[i].key, err, now)
    /\ rReports' = rReports \cup
          {[racer |-> i, key |-> racer[i].key, afterWinner |-> racePromise = "resolved"]}

\* first next() of the consumer: the generator body runs up to
\* `await racePromise`; racers without a key throw NO_KEY at once
RaceStart ==
    /\ rPc = "init"
    /\ LET a == AcquireAll(1, vault, counters, now, <<>>)
           noKey == {i \in Racers : a.keys[i] = NULL}
           fc == Cardinality(noKey)
       IN /\ vault' = a.vault
          /\ counters' = a.counters
          /\ racer' = [i \in Racers |->
                 [st |-> IF i \in noKey THEN "rejected" ELSE "connecting",
                  key |-> a.keys[i], emitted |-> 0]]
          /\ failureCount' = fc
          /\ IF AllFailed(fc, FALSE)
             THEN /\ racePromise' = ERR_ALL_FAILED
                  /\ rOut' = <<CatchChunk(ERR_ALL_FAILED)>>
                  /\ rPc' = "failYield"
             ELSE /\ racePromise' = "pending"
                  /\ rOut' = <<>>
                  /\ rPc' = "await"
    /\ timer' = "armed"
    /\ UNCHANGED <<seqVars, restVars>>
    /\ UNCHANGED <<now, winnerDeclared, winner, resolveCount, aborted, consumed,
                   rReports, firstEmitter, frozen>>

\* the SDK call of racer i resolves with a stream: then-handler
ConnectOk(i) ==
    /\ rPc # "init"
    /\ racer[i].st = "connecting"
    /\ ~frozen
    /\ ~(aborted /\ Abortable(i))
    /\ racer' = [racer EXCEPT ![i].st = "established"]
    /\ IF WinnerGuard(winnerDeclared)
       THEN /\ winnerDeclared' = TRUE
            /\ winner' = i
            /\ resolveCount' = resolveCount + 1
            /\ IF racePromise = "pending"
               THEN racePromise' = "resolved" /\ rPc' = "pull"
               ELSE UNCHANGED <<racePromise, rPc>>
       ELSE UNCHANGED <<winnerDeclared, winner, resolveCount, racePromise, rPc>>
    /\ UNCHANGED <<seqVars, restVars>>
    /\ UNCHANGED <<vaultVars, failureCount, aborted, timer, rOut, consumed,
                   rReports, firstEmitter, frozen>>

\* the SDK call of racer i rejects: .catch(e => { reportFailure; throw e })
\* and then the catch-handler of the race
ConnectFail(i, err) ==
    /\ rPc # "init"
    /\ racer[i].st = "connecting"
    /\ ~frozen
    /\ ~(aborted /\ Abortable(i))
    /\ racer' = [racer EXCEPT ![i].st = "rejected"]
    /\ RaceReport(i, err)
    /\ CatchHandler
    /\ UNCHANGED <<seqVars, restVars>>
    /\ UNCHANGED <<now, counters, winnerDeclared, winner, resolveCount, aborted,
                   timer, consumed, firstEmitter, frozen>>

\* the signal has fired while the request of racer i was in flight: the SDK
\* rejects it with an abort error, which takes the same two catch handlers
AbortReject(i) ==
    /\ racer[i].st = "connecting"
    /\ aborted /\ Abortable(i)
    /\ racer' = [racer EXCEPT ![i].st = "rejected"]
    /\ RaceReport(i, ABORT_ERROR)
    /\ CatchHandler
    /\ UNCHANGED <<seqVars, restVars>>
    /\ UNCHANGED <<now, counters, winnerDeclared, winner, resolveCount, aborted,
                   timer, consumed, firstEmitter, frozen>>

\* the upstream of racer i sends a text chunk on its established stream;
\* after the first chunk of the race only the stream the generator iterates
\* is followed (nothing reads the others)
Emit(i) ==
    /\ racer[i].st = "established"
    /\ ~frozen
    /\ racer[i].emitted < MaxChunks
    /\ firstEmitter = 0 \/ (i = winner /\ racePromise = "resolved")
    /\ racer' = [racer EXCEPT ![i].emitted = @ + 1]
    /\ firstEmitter' = IF firstEmitter = 0 THEN i ELSE firstEmitter
    /\ UNCHANGED <<seqVars, restVars>>
    /\ UNCHANGED <<vaultVars, rPc, winnerDeclared, winner, resolveCount,
                   failureCount, racePromise, aborted, timer, rOut, consumed,
                   rReports, frozen>>

\* the finally block of raceStream
Finally ==
    /\ aborted' = (aborted \/ FinallyAbort(aborted))
    /\ rPc' = "done"

\* for await (chunk of winnerIterator): a chunk is available
PullChunk ==
    /\ rPc = "pull"
    /\ racer[winner].emitted > consumed
    /\ consumed' = consumed + 1
    /\ IF aborted
       THEN Finally /\ UNCHANGED rOut
       ELSE /\ rOut' = Append(rOut, WinnerChunk(winner, consumed + 1))
            /\ rPc' = "yield"
            /\ UNCHANGED aborted
    /\ UNCHANGED <<seqVars, restVars>>
    /\ UNCHANGED <<vaultVars, racer, winnerDeclared, winner, resolveCount,
                   failureCount, racePromise, timer, rReports, firstEmitter, frozen>>

\* the winner's stream ends: its generator returns, the loop ends
PullEnd ==
    /\ rPc = "pull"
    /\ racer[winner].emitted = consumed
    /\ ~frozen
    /\ Finally
    /\ UNCHANGED <<seqVars, restVars>>
    /\ UNCHANGED <<vaultVars, racer, winnerDeclared, winner, resolveCount,
                   failureCount, racePromise, timer, rOut, consumed, rReports,
                   firstEmitter, frozen>>

\* the winner's stream throws: its generator catches, reports and returns
PullError(err) ==
    /\ rPc = "pull"
    /\ racer[winner].emitted = consumed
    /\ ~frozen
    /\ RaceReport(winner, err)
    /\ Finally
    /\ UNCHANGED <<seqVars, restVars>>
    /\ UNCHANGED <<now, counters, racer, winnerDeclared, winner, resolveCount,
                   failureCount, racePromise, timer, rOut, consumed,
                   firstEmitter, frozen>>

\* the consumer asks for the next chunk
ConsumerNext ==
    /\ rPc \in {"yield", "failYield"}
    /\ IF rPc = "yield" THEN rPc' = "pull" /\ UNCHANGED aborted
       ELSE Finally
    /\ UNCHANGED <<seqVars, restVars>>
    /\ UNCHANGED <<vaultVars, racer, winnerDeclared, winner, resolveCount,
                   failureCount, racePromise, timer, rOut, consumed, rReports,
                   firstEmitter, frozen>>

\* the consumer closes the sequence early: return() at a yield runs finally
ConsumerReturn ==
    /\ rPc \in {"yield", "failYield"}
    /\ Finally
    /\ UNCHANGED <<seqVars, restVars>>
    /\ UNCHANGED <<vaultVars, racer, winnerDeclared, winner, resolveCount,
                   failureCount, racePromise, timer, rOut, consumed, rReports,
                   firstEmitter, frozen>>

\* setTimeout(..., TIMEOUT_MS) fires (it is never cleared)
TimerFire ==
    /\ timer = "armed"
    /\ timer' = "fired"
    /\ IF TimeoutGuard(winnerDeclared)
       THEN /\ LET r == Reject(ERR_TIMEOUT)
               IN racePromise' = r.promise /\ rOut' = r.out /\ rPc' = r.pc
            /\ aborted' = TRUE
       ELSE UNCHANGED <<racePromise, rOut, rPc, aborted>>
    /\ UNCHANGED <<seqVars, restVars>>
    /\ UNCHANGED <<vaultVars, racer, winnerDeclared, winner, resolveCount,
                   failureCount, consumed, rReports, firstEmitter, frozen>>

\* from now on (the deadline has passed) no upstream answers any more:
\* pending requests and open streams hang
Freeze ==
    /\ timer = "fired"
    /\ ~frozen
    /\ frozen' = TRUE
    /\ UNCHANGED <<seqVars, restVars>>
    /\ UNCHANGED <<vaultVars, rPc, racer, winnerDeclared, winner, resolveCount,
                   failureCount, racePromise, aborted, timer, rOut, consumed,
                   rReports, firstEmitter>>

\* --------------------------------------------------------- initial states
\* the credentials configured in the environment: every provider has none
\* or MaxKeys local keys, or only GROQ has local keys
KeyConfigs ==
    {f \in [Providers -> {0, MaxKeys}] : \A p, q \in Providers : f[p] = f[q]} \cup
    {f \in [Providers -> 0..MaxKeys] :
        f["GROQ"] > 0 /\ \A p \in Providers \ {"GROQ"} : f[p] = 0}
\* __SECURE_MODE__ of the build; it shows only in a pool without local keys
SecureModes(f) ==
    IF f["GROQ"] \in {0, MaxKeys} /\ \E p \in Providers : f[p] = 0
    THEN BOOLEAN ELSE {FALSE}

InitVault ==
    /\ now = 0
    /\ \E f \in KeyConfigs : \E secure \in SecureModes(f) :
          vault = RefreshPools(f, secure)
    /\ counters = [p \in Providers |-> 0]

InitRace ==
    /\ rPc = "init"
    /\ racer = [i \in Racers |-> [st |-> "idle", key |-> NULL, emitted |-> 0]]
    /\ winnerDeclared = FALSE
    /\ winner = 0
    /\ resolveCount = 0
    /\ failureCount = 0
    /\ racePromise = "pending"
    /\ aborted = FALSE
    /\ timer = "unset"
    /\ rOut = <<>>
    /\ consumed = 0
    /\ rReports = {}
    /\ firstEmitter = 0
    /\ frozen = FALSE

\* the locals of a streamExecute call that has not been advanced yet
InitCall ==
    /\ sPc = "init"
    /\ plan = <<>>
    /\ sI = 0
    /\ sKey = NULL
    /\ sPath = "none"
    /\ attempts = 0
    /\ hasYielded = FALSE
    /\ sSignal = FALSE
    /\ fullText = <<>>
    /\ emittedS = 0
    /\ sOut = <<>>
    /\ sLog = <<>>
    /\ netCalls = 0
    /\ sReports = {}

InitSeq == InitCall /\ history = <<>>

\* no call has been made on the vault yet
NO_ERROR == [props |-> {}, message |-> {}]
InitHv ==
    /\ hvLast = [op |-> "none", p |-> NULL, key |-> NULL, err |-> NO_ERROR,
                 t |-> 0, before |-> vault]
    /\ hvRun = [p \in Providers |-> <<>>]
    /\ hvCool = {}
    /\ hvCount = 0
    /\ hvManaged = 0

\* delays are kept as exact fractions num/den of a millisecond
Ms(n) == [num |-> n, den |-> 1]
NO_ID == <<>>
\* the hook before its effects have run
InitPeer ==
    /\ mounted = FALSE
    /\ status = "INIT"
    /\ statusRef = "INIT"
    /\ retryCount = 0
    /\ pTimers = <<>>
    /\ retryTimeout = 0
    /\ peers = <<>>
    /\ peerRef = 0
    /\ peerId = NO_ID
    /\ pInits = <<>>
    /\ pLast = [ev |-> "none", type |-> "none", byUs |-> FALSE, delay |-> Ms(0)]
    /\ pFires = 0
    /\ pExpect = 0
    /\ watchdog = FALSE

\* a run of the supervisor goes up to MaxPeers transports and MaxInits
\* suspended calls; the wide runs go one further in each
NarrowCap == [peers |-> MaxPeers, inits |-> MaxInits]
WideCap == [peers |-> MaxPeers + 1, inits |-> MaxInits + 1]

\* incomingConnection is null, or { conn, firstData, status }; a message is kept
\* with the connection and the position it was received at
NO_CONN == 0
NO_DATA == [type |-> "none", from |-> 0, seq |-> 0]
NO_INCOMING == [conn |-> NO_CONN, firstData |-> NO_DATA, status |-> "none"]
InitInbound ==
    /\ conns = <<>>
    /\ incoming = NO_INCOMING

InitCtx ==
    /\ cPc = "idle"
    /\ cHistory = <<>>
    /\ cStored = <<>>
    /\ cMsg = 0
    /\ cPrompt = 0
    /\ cLimit = 0
    /\ cI = 0
    /\ cUsed = 0
    /\ cSend = <<>>

InitBackoff ==
    /\ bPhase = "idle"
    /\ bN = 0
    /\ bDelay = Ms(0)
    /\ bPrev = Ms(0)

InitCalls == sCalls = 0
NO_OUTCOME == [kind |-> "none", status |-> 0]
InitFetch ==
    /\ fPc = "idle"
    /\ fRetries = 0
    /\ fBackoff = 0
    /\ fArgs = [retries |-> 0, backoffMs |-> 0]
    /\ fOutcomes = <<>>
    /\ fWaits = <<>>
    /\ fResult = NO_OUTCOME
\* a NeuralLinkService after its constructor
InitLink ==
    /\ isConnecting = FALSE
    /\ isConnected = FALSE
    /\ lSetups = <<>>
    /\ lSession = 0
    /\ lStatus = "IDLE"
\* a LiveSessionProvider after its first render
NO_WATCHDOG == [armed |-> FALSE, seen |-> "IDLE"]
InitLive ==
    /\ vStatus = "IDLE"
    /\ vIsLive = FALSE
    /\ vWatchdog = NO_WATCHDOG
    /\ vPending = 0
    /\ vSocket = "none"
    /\ vStarts = 0
    /\ vLast = "none"
InitMore == InitCalls /\ InitFetch /\ InitLink /\ InitLive
InitRest == InitVault /\ InitRace /\ InitSeq /\ InitHv /\ InitPeer /\ InitBackoff /\
            InitInbound /\ InitCtx /\ InitMore
Init == InitRest /\ pCap = NarrowCap

NextRace ==
    \/ RaceStart
    \/ \E i \in Racers : ConnectOk(i)
    \/ \E i \in Racers, err \in RaceErrors : ConnectFail(i, err)
    \/ \E i \in Racers : AbortReject(i)
    \/ \E i \in Racers : Emit(i)
    \/ PullChunk
    \/ PullEnd
    \/ \E err \in RaceErrors : PullError(err)
    \/ ConsumerNext
    \/ ConsumerReturn
    \/ TimerFire
    \/ Freeze

SpecRace == Init /\ [][NextRace]_vars

RaceTypeOK ==
    /\ rPc \in {"init", "await", "pull", "yield", "failYield", "done"}
    /\ racePromise \in {"pending", "resolved", ERR_ALL_FAILED, ERR_TIMEOUT}
    /\ winner \in Racers \cup {0}
    /\ (racePromise = "pending") = (rPc \in {"init", "await"})
    /\ rPc \in {"pull", "yield"} => racePromise = "resolved" /\ winner \in Racers


\* ------------------------------------------------- properties of the race
Established == {i \in Racers : racer[i].st = "established"}
\* racers whose upstream has emitted at least one chunk
Producers == {i \in Racers : racer[i].emitted > 0}
RaceFailures == {ERR_ALL_FAILED, ERR_TIMEOUT}
FailureDelivered == \E k \in DOMAIN rOut : rOut[k].src = 0
\* nothing can happen any more: the deadline has passed, the upstreams are
\* silent, the consumer is waiting for the generator
Quiescent ==
    /\ frozen
    /\ timer = "fired"
    /\ rPc \in {"pull", "done"}
    /\ rPc = "pull" => racer[winner].emitted = consumed
    /\ \A i \in Racers : racer[i].st = "connecting" => ~(aborted /\ Abortable(i))
\* racer i failed: its promise rejected, or its forwarded stream threw
RacerFailed(i) ==
    \/ racer[i].st = "rejected"
    \/ [racer |-> i, key |-> racer[i].key, afterWinner |-> TRUE] \in rReports
\* racer i hangs: its request or its stream is left without an answer
RacerHangs(i) ==
    \/ racer[i].st = "connecting"
    \/ racer[i].st = "established" /\ (i = winner /\ racePromise = "resolved" => rPc = "pull")

\* C1: once a winner has been committed, no failure of a losing candidate
\* (the abort error caused by the race's own signal included) leads to a
\* GLOBAL_VAULT.reportFailure call.
C1_NoLoserReportAfterWinner ==
    \A r \in rReports : r.afterWinner => r.racer = winner

\* C2: whatever the order in which the dispatch promises settle, the winner
\* commitment is resolved at most once and every chunk forwarded to the
\* caller comes from the stream of that one winner.
C2_SingleWinner ==
    /\ resolveCount <= 1
    /\ \A k \in DOMAIN rOut : rOut[k].src # 0 => rOut[k].src = winner
C2_Witness ==
    /\ Cardinality(Established) >= 3
    /\ resolveCount = 1
    /\ winner # 1
    /\ Len(rOut) >= 2

\* C3: when exactly one candidate produces output and every other one fails
\* or hangs (before or after its stream is established), then once nothing
\* more can happen the race has completed and the caller has received the
\* output of that candidate: the race does not wait for a hung candidate
\* beyond the global timeout.
C3_RaceCompletesWithProducer ==
    \A y \in Racers :
        ( /\ Quiescent
          /\ Producers = {y}
          /\ racePromise # ERR_TIMEOUT
          /\ (y = winner => rPc = "done")
          /\ \A i \in Racers \ {y} : RacerFailed(i) \/ RacerHangs(i) )
        => ( /\ rPc = "done"
             /\ \E k \in DOMAIN rOut : rOut[k].src = y )

\* C4: the winner is the candidate that first produces an output chunk, not
\* the one whose stream is established first: what the caller receives is
\* the output of the first candidate to emit a chunk.
C4_FirstChunkWins ==
    (racePromise = "resolved" /\ firstEmitter # 0)
    => ( /\ winner = firstEmitter
         /\ \A k \in DOMAIN rOut : rOut[k].src = firstEmitter )

\* C5: every raceStream call that has ended (winner stream exhausted,
\* timeout, all candidates failed, consumer closing early) has fired the
\* shared cancellation signal.
C5_EndedImpliesAborted ==
    rPc = "done" => aborted
C5_Witness ==
    /\ rPc = "done"
    /\ racePromise = "resolved"
    /\ Len(rOut) >= 1
    /\ \E i \in Racers : racer[i].st = "connecting"

MODEL_IDS ==
    [GEMINI_FLASH |-> "gemini-flash", GEMINI_PRO |-> "gemini-pro", LLAMA_70B |-> "llama-70b"]
MASTER_MODEL_CATALOG == <<
    [id |-> "gemini-flash", provider |-> "GEMINI"],
    [id |-> "gemini-pro",   provider |-> "GEMINI"],
    [id |-> "llama-70b",    provider |-> "GROQ"],
    [id |-> "gpt-4o-mini",  provider |-> "OPENAI"] >>
\* the initialModelId arguments tried
InitialModels == {"auto-best", "llama-70b", "gpt-4o-mini"}

HISTORY_LIMIT == 50
NO_KEYS_TEXT == "SYSTEM HALT: NO API KEYS DETECTED"
CONNECTION_FAILURE_TEXT == "CONNECTION FAILURE"
USER_MSG == << <<0, 0>> >>

\* MASTER_MODEL_CATALOG.find(m => m.id === modelId) || MASTER_MODEL_CATALOG[0]
CatalogFind(modelId) ==
    LET hits == {k \in DOMAIN MASTER_MODEL_CATALOG : MASTER_MODEL_CATALOG[k].id = modelId}
    IN IF hits = {} THEN MASTER_MODEL_CATALOG[1]
       ELSE MASTER_MODEL_CATALOG[CHOOSE k \in hits : \A j \in hits : k <= j]
ProviderOf(modelId) == CatalogFind(modelId).provider

\* [...new Set(list)]: first occurrences, in order
RECURSIVE Dedupe(_, _)
Dedupe(list, acc) ==
    IF list = <<>> THEN acc
    ELSE IF \E k \in DOMAIN acc : acc[k] = Head(list) THEN Dedupe(Tail(list), acc)
    ELSE Dedupe(Tail(list), Append(acc, Head(list)))

\* the plan of streamExecute
BuildPlan(initialModelId) ==
    LET currentModelId == IF initialModelId = "auto-best" THEN MODEL_IDS.GEMINI_FLASH
                          ELSE initialModelId
    IN Dedupe(<<currentModelId, MODEL_IDS.GEMINI_FLASH, MODEL_IDS.GEMINI_PRO,
                MODEL_IDS.LLAMA_70B>>, <<>>)

\* the branch a candidate runs
ClientPath(provider) == IF provider = "GEMINI" THEN "gemini" ELSE "openai"
PathOf(k, provider) == IF k = MANAGED_KEY THEN "proxy" ELSE ClientPath(provider)
\* requests that are given the signal: fetch('/api/chat') and
\* streamOpenAICompatible; generateContentStream is not
AbortablePath(path) == path \in {"proxy", "openai"}

\* the chunks streamExecute yields
TextChunk(i, n) == [kind |-> "text", src |-> i, n |-> n, text |-> "chunk"]
StatusChunk(nextModel) == [kind |-> "status", src |-> 0, n |-> 0, text |-> nextModel]
\* if (attempts === 0) ... else ...
FallbackText_Swapped(att) == IF att = 0 THEN CONNECTION_FAILURE_TEXT ELSE NO_KEYS_TEXT
FallbackText(att) == IF att = 0 THEN NO_KEYS_TEXT ELSE CONNECTION_FAILURE_TEXT
FinalChunk(att) == [kind |-> "final", src |-> 0, n |-> att, text |-> FallbackText(att)]

\* catch: if (i < plan.length - 1), with the 1-based index
RerouteGuard(i, n) == i < n

\* updateHistory
UpdateHistory_KeepOldest(h, user, assistant) ==
    LET h2 == h \o << [role |-> "user", text |-> user],
                      [role |-> "model", text |-> assistant] >>
    IN IF Len(h2) > HISTORY_LIMIT THEN SubSeq(h2, 1, HISTORY_LIMIT) ELSE h2
UpdateHistory(h, user, assistant) ==
    LET h2 == h \o << [role |-> "user", text |-> user],
                      [role |-> "model", text |-> assistant] >>
    IN IF Len(h2) > HISTORY_LIMIT
       THEN SubSeq(h2, Len(h2) - HISTORY_LIMIT + 1, Len(h2))
       ELSE h2

\* the for loop from index i up to the first candidate that is dispatched:
\* break on an aborted signal, continue on a missing key
RECURSIVE LoopFrom(_, _, _, _, _, _, _)
LoopFrom(pl, i, v, c, log, sig, t) ==
    IF i > Len(pl) \/ sig
    THEN [exit |-> TRUE, i |-> i, key |-> NULL, vault |-> v, counters |-> c, log |-> log]
    ELSE LET g == GetKey(v, c, ProviderOf(pl[i]), t) IN
         IF g.key = NULL
         THEN LoopFrom(pl, i + 1, g.vault, g.counters,
                       [log EXCEPT ![i].outcome = "skipped"], sig, t)
         ELSE [exit |-> FALSE, i |-> i, key |-> g.key, vault |-> g.vault,
               counters |-> g.counters,
               log |-> [log EXCEPT ![i] = [key |-> g.key, outcome |-> "dispatched"]]]

\* the generator runs on from the head of iteration i: either a candidate is
\* dispatched, or the loop is left and the fallback message is yielded
Resume(pl, i, v, log, att, out) ==
    LET r == LoopFrom(pl, i, v, counters, log, sSignal, now) IN
    /\ vault' = r.vault
    /\ counters' = r.counters
    /\ sLog' = r.log
    /\ sI' = r.i
    /\ sKey' = r.key
    /\ fullText' = <<>>
    /\ emittedS' = 0
    /\ IF r.exit
       THEN /\ sPath' = "none"
            /\ attempts' = att
            /\ netCalls' = netCalls
            /\ IF ~hasYielded
               THEN sOut' = Append(out, FinalChunk(att)) /\ sPc' = "yieldFinal"
               ELSE sOut' = out /\ sPc' = "done"
       ELSE /\ sPath' = PathOf(r.key, ProviderOf(pl[r.i]))
            /\ attempts' = att + 1
            /\ netCalls' = netCalls + 1
            /\ sOut' = out
            /\ sPc' = "connecting"

\* first next() of the consumer
SeqStart(initialModelId) ==
    /\ sPc = "init"
    /\ LET pl == BuildPlan(initialModelId) IN
       /\ plan' = pl
       /\ Resume(pl, 1, vault, [i \in DOMAIN pl |-> [key |-> NULL, outcome |-> "none"]],
                 0, <<>>)
    /\ UNCHANGED <<now, raceVars, restVars, hasYielded, sSignal, history, sReports>>

\* the catch block of the loop body
SeqCatch(err) ==
    LET v2 == ReportFailure(vault, ProviderOf(plan[sI]), sKey, err, now)
        log2 == [sLog EXCEPT ![sI].outcome = "failed"]
    IN /\ sReports' = sReports \cup {[idx |-> sI, key |-> sKey]}
       /\ IF RerouteGuard(sI, Len(plan))
          THEN /\ vault' = v2
               /\ sLog' = log2
               /\ sOut' = Append(sOut, StatusChunk(plan[sI + 1]))
               /\ sPc' = "yieldStatus"
               /\ UNCHANGED <<counters, sI, sKey, sPath, attempts, netCalls,
                              fullText, emittedS>>
          ELSE Resume(plan, sI + 1, v2, log2, attempts, sOut)
       /\ UNCHANGED <<now, raceVars, restVars, plan, hasYielded, sSignal, history>>

\* the request or the stream of the candidate throws
SeqFail(err) ==
    /\ sPc \in {"connecting", "streaming"}
    /\ ~(sSignal /\ AbortablePath(sPath))
    /\ SeqCatch(err)

\* the signal fired while a request that carries it is in flight
SeqAbortFail ==
    /\ sPc \in {"connecting", "streaming"}
    /\ sSignal /\ AbortablePath(sPath)
    /\ SeqCatch(ABORT_ERROR)

\* the response arrives: the stream is read from now on
SeqConnected ==
    /\ sPc = "connecting"
    /\ ~(sSignal /\ AbortablePath(sPath))
    /\ sPc' = "streaming"
    /\ UNCHANGED <<vaultVars, raceVars, restVars, plan, sI, sKey, sPath, attempts, hasYielded,
                   sSignal, fullText, emittedS, sOut, history, sLog, netCalls, sReports>>

\* the code after the read loop of a branch
AfterStream(label) ==
    IF hasYielded
    THEN /\ history' = UpdateHistory(history, USER_MSG, fullText)
         /\ sPc' = "done"
         /\ sLog' = [sLog EXCEPT ![sI].outcome =
                        IF fullText # <<>> THEN "succeeded" ELSE "returned"]
         /\ UNCHANGED <<vaultVars, sI, sKey, sPath, attempts, fullText, emittedS,
                        sOut, netCalls>>
    ELSE IF sPath = "proxy"
    THEN \* falls through to the client side logic with the same key
         /\ sPath' = ClientPath(ProviderOf(plan[sI]))
         /\ sPc' = "connecting"
         /\ netCalls' = netCalls + 1
         /\ fullText' = <<>>
         /\ emittedS' = 0
         /\ UNCHANGED <<vaultVars, sI, sKey, attempts, sOut, history, sLog>>
    ELSE /\ Resume(plan, sI + 1, vault, [sLog EXCEPT ![sI].outcome = label],
                   attempts, sOut)
         /\ UNCHANGED history

\* the stream delivers a chunk with text
SeqChunk ==
    /\ sPc = "streaming"
    /\ emittedS < MaxChunks
    /\ ~(sSignal /\ sPath = "proxy")
    /\ IF sSignal
       THEN \* if (signal?.aborted) break
            AfterStream("cancelled")
       ELSE /\ fullText' = Append(fullText, <<sI, emittedS + 1>>)
            /\ emittedS' = emittedS + 1
            /\ sOut' = Append(sOut, TextChunk(sI, emittedS + 1))
            /\ sPc' = "yieldText"
            /\ UNCHANGED <<vaultVars, sI, sKey, sPath, attempts, history, sLog, netCalls>>
    /\ UNCHANGED <<now, raceVars, restVars, plan, hasYielded, sSignal, sReports>>

\* the stream ends
SeqStreamEnd ==
    /\ sPc = "streaming"
    /\ ~(sSignal /\ AbortablePath(sPath))
    /\ AfterStream("empty")
    /\ UNCHANGED <<now, raceVars, restVars, plan, hasYielded, sSignal, sReports>>

\* the consumer asks for the next chunk
SeqNext ==
    /\ sPc \in {"yieldText", "yieldStatus", "yieldFinal"}
    /\ IF sPc = "yieldText"
       THEN /\ hasYielded' = TRUE
            /\ sPc' = "streaming"
            /\ UNCHANGED <<vaultVars, sI, sKey, sPath, attempts, fullText, emittedS,
                           sOut, sLog, netCalls>>
       ELSE IF sPc = "yieldStatus"
       THEN /\ Resume(plan, sI + 1, vault, sLog, attempts, sOut)
            /\ UNCHANGED hasYielded
       ELSE /\ sPc' = "done"
            /\ UNCHANGED <<vaultVars, sI, sKey, sPath, attempts, fullText, emittedS,
                           sOut, sLog, netCalls, hasYielded>>
    /\ UNCHANGED <<now, raceVars, restVars, plan, sSignal, history, sReports>>

\* the consumer closes the sequence at a yield
SeqReturn ==
    /\ sPc \in {"yieldText", "yieldStatus", "yieldFinal"}
    /\ sPc' = "done"
    /\ UNCHANGED <<vaultVars, raceVars, restVars, plan, sI, sKey, sPath, attempts, hasYielded,
                   sSignal, fullText, emittedS, sOut, history, sLog, netCalls, sReports>>

\* the caller aborts the signal it passed in configOverride
SeqAbort ==
    /\ sPc # "done"
    /\ ~sSignal
    /\ sSignal' = TRUE
    /\ UNCHANGED <<vaultVars, raceVars, restVars, sPc, plan, sI, sKey, sPath, attempts,
                   hasYielded, fullText, emittedS, sOut, history, sLog, netCalls,
                   sReports>>

\* time passes
Tick ==
    /\ sPc \notin {"init", "done"}
    /\ now + PENALTY_DEFAULT <= MaxNow
    /\ now' = now + PENALTY_DEFAULT
    /\ UNCHANGED <<vault, counters, raceVars, restVars, seqVars>>

NextSeq ==
    \/ \E m \in InitialModels : SeqStart(m)
    \/ \E err \in SeqErrors : SeqFail(err)
    \/ SeqAbortFail
    \/ SeqConnected
    \/ SeqChunk
    \/ SeqStreamEnd
    \/ SeqNext
    \/ SeqReturn
    \/ SeqAbort
    \/ Tick

SpecSeq == Init /\ [][NextSeq]_vars

SeqTypeOK ==
    /\ sPc \in {"init", "connecting", "streaming", "yieldText", "yieldStatus",
                "yieldFinal", "done"}
    /\ sPc \in {"connecting", "streaming", "yieldText", "yieldStatus"} =>
          /\ sI \in DOMAIN plan
          /\ sKey # NULL
    /\ attempts = Cardinality({i \in DOMAIN sLog : sLog[i].outcome \notin {"none", "skipped"}})
    /\ Len(history) <= HISTORY_LIMIT


\* ------------------------------------------ properties of streamExecute
IsText(ch) == ch.kind = "text"
ContentIdx == {k \in DOMAIN sOut : sOut[k].kind = "text"}
StatusIdx == {k \in DOMAIN sOut : sOut[k].kind = "status"}
\* the content chunks of candidate i, as yielded
ContentOf(i) == SelectSeq(sOut, LAMBDA ch : ch.kind = "text" /\ ch.src = i)
\* a final message has been yielded
FinalDelivered == sOut # <<>> /\ sOut[Len(sOut)].kind = "final"
\* the call has ended with plan [A, B, C], A and B dispatched and failed,
\* C the candidate whose stream was read to its end with output
PlanABC ==
    /\ sPc = "done"
    /\ Len(plan) = 3
    /\ sLog[1].outcome = "failed"
    /\ sLog[2].outcome = "failed"
    /\ sLog[3].outcome = "succeeded"
UsedRecord(i) == RecordOf(ProviderOf(plan[i]), sLog[i].key)

C8_SingleContentSource ==
    /\ \A a, b \in ContentIdx : sOut[a].src = sOut[b].src
    /\ \A a \in ContentIdx, i \in DOMAIN sLog :
          i > sOut[a].src => sLog[i].outcome \in {"none", "skipped"}

\* C9: with an empty credential pool for every provider, streamExecute
\* yields the "no API keys detected" message as its only chunk, issues no
\* network request and reports no failure to the key pool.
EmptyPools == \A p \in Providers : vault[p] = <<>>
C9_EmptyPoolMessage ==
    EmptyPools =>
      /\ netCalls = 0
      /\ sReports = {}
      /\ attempts = 0
      /\ IF sPc = "init" THEN sOut = <<>>
         ELSE /\ sPc \in {"yieldFinal", "done"}
              /\ Len(sOut) = 1
              /\ sOut[1].kind = "final"
              /\ sOut[1].text = NO_KEYS_TEXT
C9_Witness ==
    /\ EmptyPools
    /\ sPc = "done"
    /\ Len(sOut) = 1
    /\ sOut[1].text = NO_KEYS_TEXT

\* C10: when a call ends without content, its final message is the
\* no-credentials message exactly when no candidate had an available
\* credential, and the every-candidate-failed message exactly when at least
\* one candidate was dispatched and failed.
NoCandidateHadCredential ==
    \A i \in DOMAIN plan :
        \/ sLog[i].outcome = "skipped"
        \/ /\ sLog[i].outcome = "none"
           /\ \A k \in DOMAIN vault[ProviderOf(plan[i])] :
                 vault[ProviderOf(plan[i])][k].status # "ACTIVE"
SomeCandidateFailed ==
    \E i \in DOMAIN plan : sLog[i].outcome \in {"failed", "empty"}
C10_FinalMessageMatchesCause ==
    (FinalDelivered /\ ContentIdx = {}) =>
      /\ (sOut[Len(sOut)].text = NO_KEYS_TEXT) <=> NoCandidateHadCredential
      /\ (sOut[Len(sOut)].text = CONNECTION_FAILURE_TEXT) <=> SomeCandidateFailed

\* ------------------------------------------- HydraVault called directly
\* the provider and credentials the calls are made with
VaultProviders == {"GROQ"}
VaultKeys == {KeyNames[i] : i \in 1..MaxKeys} \cup {MANAGED_KEY, "unknown-key"}
\* the `error` argument: an Error object with the words of its message and
\* the words held by its enumerable own properties (status, body, ...)
VaultErrors == {
    [props |-> {}, message |-> {}],
    [props |-> {}, message |-> {"429", "limit"}],
    [props |-> {"429"}, message |-> {"quota"}],
    [props |-> {"503"}, message |-> {"overloaded"}],
    [props |-> {"429", "503"}, message |-> {}] }
\* JSON.stringify(error).toLowerCase(): the enumerable own properties; the
\* message of an Error is not enumerable and is left out
JsonStringify(error) == error.props

\* the last entries of a sequence
Window(q, n) == IF Len(q) > n THEN SubSeq(q, Len(q) - n + 1, Len(q)) ELSE q

\* GLOBAL_VAULT.getKey(p)
VGetKey(p) ==
    LET g == GetKey(vault, counters, p, now) IN
    /\ vault' = g.vault
    /\ counters' = g.counters
    /\ hvLast' = [op |-> "getKey", p |-> p, key |-> g.key, err |-> NO_ERROR,
                  t |-> now, before |-> vault]
    /\ hvRun' = [hvRun EXCEPT ![p] =
                    IF g.key = NULL THEN <<>>
                    ELSE IF g.vault[p] # vault[p] THEN <<g.key>>
                    ELSE Window(Append(@, g.key), MaxKeys + 2)]
    /\ UNCHANGED <<now, hvCool, hvCount, hvManaged, raceVars, seqVars, peerVars, backoffVars,
                   inboundVars, ctxVars, moreVars>>

\* GLOBAL_VAULT.reportFailure(p, k, error)
VReportFailure(p, k, error) ==
    LET v2 == ReportFailure(vault, p, k, JsonStringify(error), now) IN
    /\ hvCount < MaxFailures
    /\ hvCount' = hvCount + 1
    /\ hvManaged' = IF k = MANAGED_KEY THEN hvManaged + 1 ELSE hvManaged
    /\ vault' = v2
    /\ hvLast' = [op |-> "reportFailure", p |-> p, key |-> k, err |-> error,
                  t |-> now, before |-> vault]
    /\ hvRun' = [hvRun EXCEPT ![p] = IF v2[p] # vault[p] THEN <<>> ELSE @]
    /\ hvCool' = IF v2[p] # vault[p]
                 THEN {c \in hvCool : ~(c.p = p /\ c.key = k)} \cup
                      {[p |-> p, key |-> k, at |-> now,
                        d |-> v2[p][FindRecord(v2[p], k)].cooldownUntil - now]}
                 ELSE hvCool
    /\ UNCHANGED <<now, counters, raceVars, seqVars, peerVars, backoffVars,
                   inboundVars, ctxVars, moreVars>>

\* time passes between two calls
VTick ==
    /\ hvLast.op # "none"
    /\ now + PENALTY_DEFAULT <= MaxNow
    /\ now' = now + PENALTY_DEFAULT
    /\ UNCHANGED <<vault, counters, hvVars, raceVars, seqVars, peerVars, backoffVars,
                   inboundVars, ctxVars, moreVars>>

NextVault ==
    \/ \E p \in VaultProviders : VGetKey(p)
    \/ \E p \in VaultProviders, k \in VaultKeys, e \in VaultErrors : VReportFailure(p, k, e)
    \/ VTick

\* only the GROQ pool is driven here, so each content of it is taken once:
\* with the other pools empty, or with the virtual key in every pool
InitGroq ==
    /\ Init
    /\ \/ \A p \in Providers \ VaultProviders : vault[p] = <<>>
       \/ \A p \in Providers : vault[p] = <<KeyRecord(MANAGED_KEY)>>
SpecVault == InitGroq /\ [][NextVault]_vars

VaultTypeOK ==
    /\ hvCount \in 0..(MaxFailures + 1)
    /\ \A p \in Providers : Len(hvRun[p]) <= MaxKeys + 2
    /\ \A p \in Providers : \A i \in DOMAIN vault[p] :
          vault[p][i].status \in {"ACTIVE", "COOLDOWN"}

\* ---------------------------------------------- properties of HydraVault
\* the record of credential k in a pool, as it was before the last call
RecordBefore(p, k) == hvLast.before[p][FindRecord(hvLast.before[p], k)]

\* C11: a credential on which reportFailure set a cooldown of duration d at
\* time at (no later failure reported on it) is not returned by a getKey
\* call made before at + d, and every getKey call made at or after at + d
\* finds it healed: ACTIVE, with no failures, among the selectable entries.
C11_CooldownRoundTrip ==
    hvLast.op = "getKey" =>
      \A c \in hvCool :
        c.p = hvLast.p =>
          /\ InPool(c.p, c.key)
          /\ c.d \in {PENALTY_DEFAULT, PENALTY_OVERLOAD, PENALTY_RATE_LIMIT}
          /\ hvLast.t < c.at + c.d =>
                /\ hvLast.key # c.key
                /\ RecordOf(c.p, c.key).status = "COOLDOWN"
          /\ hvLast.t >= c.at + c.d =>
                /\ RecordOf(c.p, c.key).status = "ACTIVE"
                /\ RecordOf(c.p, c.key).fails = 0
                /\ hvLast.key # NULL
C11_Witness ==
    /\ hvLast.op = "getKey"
    /\ \E c \in hvCool :
          /\ c.p = hvLast.p
          /\ hvLast.t >= c.at + c.d
          /\ hvLast.key = c.key
          /\ RecordBefore(c.p, c.key).status = "COOLDOWN"
          /\ RecordOf(c.p, c.key).status = "ACTIVE"


\* an entry getKey may hand out at time t: ACTIVE, or cooled down until t
Eligible(rec, t) == rec.status = "ACTIVE" \/ rec.cooldownUntil <= t
ActiveKeys(p) ==
    {Decloak(vault[p][i].cloakedKey) : i \in {j \in DOMAIN vault[p] : vault[p][j].status = "ACTIVE"}}

\* C12: with k eligible credentials and no failure or heal in between,
\* consecutive getKey calls of a provider go round the k credentials: two
\* calls return the same credential exactly when they are a multiple of k
\* calls apart (so k calls return each once and call k+1 repeats the first);
\* getKey returns null exactly when no entry of the provider is eligible.
C12_RoundRobin ==
    /\ \A p \in VaultProviders :
          LET run == hvRun[p]
              k == Cardinality(ActiveKeys(p))
          IN /\ \A i \in DOMAIN run : run[i] \in ActiveKeys(p)
             /\ \A i, j \in DOMAIN run :
                   i < j => ((run[i] = run[j]) <=> ((j - i) % k = 0))
    /\ hvLast.op = "getKey" =>
          ((hvLast.key = NULL) <=>
              \A i \in DOMAIN hvLast.before[hvLast.p] :
                  ~Eligible(hvLast.before[hvLast.p][i], hvLast.t))
C12_Witness ==
    \E p \in VaultProviders :
        /\ Cardinality(ActiveKeys(p)) = 2
        /\ Len(hvRun[p]) >= 3
        /\ hvRun[p][Len(hvRun[p])] = hvRun[p][Len(hvRun[p]) - 2]
        /\ hvRun[p][Len(hvRun[p])] # hvRun[p][Len(hvRun[p]) - 1]


\* the words of an error: those of its message and of its properties
ErrorText(error) == error.props \cup error.message
\* the penalty the claim gives to an error text
ClaimedPenalty(text) ==
    IF text \cap {"429", "quota", "limit"} # {} THEN 300000
    ELSE IF text \cap {"503", "overloaded"} # {} THEN 60000
    ELSE 30000
\* the last call was reportFailure with a non-managed credential of the pool
ReportedOnRecord ==
    /\ hvLast.op = "reportFailure"
    /\ hvLast.key # MANAGED_KEY
    /\ FindRecord(hvLast.before[hvLast.p], hvLast.key) # 0

\* C13: reportFailure on a non-managed credential found in the pool adds one
\* to its failure count, sets its status to COOLDOWN and its expiry to
\* now + penalty, the penalty being 300000 for rate-limit or quota error
\* text, else 60000 for overload or server-error text, else 30000; no other
\* entry is changed.
C13_ReportFailureEffect ==
    ReportedOnRecord =>
      LET p == hvLast.p
          idx == FindRecord(hvLast.before[p], hvLast.key)
          old == hvLast.before[p][idx]
      IN /\ vault[p][idx].fails = old.fails + 1
         /\ vault[p][idx].status = "COOLDOWN"
         /\ vault[p][idx].cooldownUntil = hvLast.t + ClaimedPenalty(ErrorText(hvLast.err))
         /\ vault[p][idx].cloakedKey = old.cloakedKey
         /\ \A q \in Providers : \A i \in DOMAIN vault[q] :
               (q # p \/ i # idx) => vault[q][i] = hvLast.before[q][i]
         /\ \A q \in Providers : Len(vault[q]) = Len(hvLast.before[q])


BASE_DELAY == 2000
MAX_DELAY == 30000
RATE_LIMIT_DELAY == 60000
RATE_LIMIT_RETRY_COUNT == 5
MAX_FATAL_RETRIES == 5

RatLeq(a, b) == a.num * b.den <= b.num * a.den
RatMin(a, b) == IF RatLeq(a, b) THEN a ELSE b

\* Math.pow(1.5, n) as the fraction 3^n / 2^n.  Once the power is above
\* MAX_DELAY / BASE_DELAY it is no longer multiplied: every later power is
\* above that ratio too, and Math.min maps all of them to MAX_DELAY.
RECURSIVE Pow15From(_, _, _)
Pow15From(r, k, n) ==
    IF k = n \/ BASE_DELAY * r.num > MAX_DELAY * r.den THEN r
    ELSE Pow15From([num |-> 3 * r.num, den |-> 2 * r.den], k + 1, n)
Pow15(n) == Pow15From([num |-> 1, den |-> 1], 0, n)

\* Math.min(baseDelay * Math.pow(1.5, retryCount.current), 30000)
BackoffDelay_NoCap(rc) ==
    [num |-> BASE_DELAY * Pow15(rc).num, den |-> Pow15(rc).den]
BackoffDelay(rc) ==
    RatMin([num |-> BASE_DELAY * Pow15(rc).num, den |-> Pow15(rc).den], Ms(MAX_DELAY))

\* a RetryBudget is chosen
BInput(n) ==
    /\ bPhase = "idle"
    /\ bN' = n
    /\ bPhase' = "input"
    /\ UNCHANGED <<bDelay, bPrev, vaultVars, raceVars, seqVars, hvVars, peerVars,
                   inboundVars, ctxVars, moreVars>>

\* the delay is computed for it
BCompute ==
    /\ bPhase = "input"
    /\ bDelay' = BackoffDelay(bN)
    /\ bPhase' = "computed"
    /\ UNCHANGED <<bN, bPrev, vaultVars, raceVars, seqVars, hvVars, peerVars,
                   inboundVars, ctxVars, moreVars>>

\* the retry fired (retryCount.current++) and the next delay is computed
BNext ==
    /\ bPhase \in {"computed", "next"}
    /\ bN < MaxBudget
    /\ bN' = bN + 1
    /\ bPrev' = bDelay
    /\ bDelay' = BackoffDelay(bN + 1)
    /\ bPhase' = "next"
    /\ UNCHANGED <<vaultVars, raceVars, seqVars, hvVars, peerVars,
                   inboundVars, ctxVars, moreVars>>

NextBackoff ==
    \/ \E n \in 0..MaxBudget : BInput(n)
    \/ BCompute
    \/ BNext

\* the credentials play no part here: one environment is enough
InitNoKeys == Init /\ \A p \in Providers : vault[p] = <<>>
SpecBackoff == InitNoKeys /\ [][NextBackoff]_vars

\* C16: the delay computed when not rate limited, min(30000, 2000 * 1.5^n),
\* never exceeds 30000 ms and is non-decreasing in the RetryBudget n.
C16_BackoffMonotoneCapped ==
    bPhase \in {"computed", "next"} =>
      /\ RatLeq(bDelay, Ms(30000))
      /\ RatLeq(Ms(2000), bDelay)
      /\ bPhase = "next" => RatLeq(bPrev, bDelay)
      /\ \A m \in 0..bN : RatLeq(BackoffDelay(m), bDelay)
C16_Witness ==
    /\ bPhase = "next"
    /\ bN = 7
    /\ bDelay = Ms(30000)
    /\ bPrev = [num |-> 2000 * 729, den |-> 64]


\* ------------------------------------------- useGlobalPeer: the supervisor
\* identity.istokId and the fallback ids `${istokId}-${suffix}`
ORIGINAL_ID == <<"istok-id">>
Suffixes == {100}
FallbackId(suffix) == <<"istok-id", suffix>>
\* err.type / err.message of a transport error, as the handler tells them apart
ErrorTypes == {"unavailable-id", "rate-limit", "other"}

\* a Peer object: `disconnected` and `destroyed` as the handlers read them.
\* st is "connecting", "open", "disconnected", "destroyed" (destroy() was
\* called, the close event has not reached its listener yet) or "closed"
NewPeer(id) == [id |-> id, st |-> "connecting", listeners |-> TRUE]
IsDisconnected(pr) == pr.st \in {"disconnected", "destroyed", "closed"}
IsDestroyed(pr) == pr.st \in {"destroyed", "closed"}
\* peer.destroy(); sync: its close listener runs inside the call
Destroy(pr, sync) ==
    IF IsDestroyed(pr) THEN pr
    ELSE [pr EXCEPT !.st = IF pr.listeners /\ ~sync THEN "destroyed" ELSE "closed"]
\* a Peer object no handler can hear from any more and peerRef does not hold is
\* left to the garbage collector
COLLECTED == [id |-> NO_ID, st |-> "closed", listeners |-> FALSE]
Collect(prs, ref) ==
    [k \in DOMAIN prs |->
        IF k # ref /\ (~prs[k].listeners \/ prs[k].st = "closed") THEN COLLECTED
        ELSE prs[k]]
\* a sequence without its j-th element
RemoveAt(q, j) == [k \in 1..(Len(q) - 1) |-> IF k < j THEN q[k] ELSE q[k + 1]]
\* clearTimeout(retryTimeout.current)
ClearRetry_Keep(timers, ref) == timers
ClearRetry(timers, ref) == IF ref # 0 THEN RemoveAt(timers, ref) ELSE timers

\* the record of the callback that ran last
\* delay: what it passed to setTimeout, NO_DELAY if it set no timer
NO_DELAY == Ms(0)
Last(ev, type, byUs, delay) ==
    [ev |-> ev, type |-> type, byUs |-> byUs, delay |-> delay]

\* initGlobalPeer(overrideId) up to its first await, started with the given
\* transports, peerRef, peerId and status
InitGuard_IgnoreOverride(override, prs, ref) ==
    statusRef = "CONNECTING" \/
    (statusRef = "READY" /\ ref # 0 /\ ~IsDisconnected(prs[ref]))
InitGuard(override, prs, ref) ==
    override = NO_ID /\
    (statusRef = "CONNECTING" \/
     (statusRef = "READY" /\ ref # 0 /\ ~IsDisconnected(prs[ref])))
InitGlobalPeer(override, prs, ref, pid, stt, sync) ==
    IF InitGuard(override, prs, ref)
    THEN [status |-> stt, peers |-> prs, peerRef |-> ref, peerId |-> pid, pInits |-> pInits]
    ELSE [status |-> "CONNECTING",
          peers |-> IF ref = 0 THEN prs
                    ELSE Collect([prs EXCEPT ![ref] = Destroy(@, sync)], 0),
          peerRef |-> 0,
          peerId |-> IF ref # 0 /\ ~IsDestroyed(prs[ref]) /\ prs[ref].listeners /\ sync
                     THEN NO_ID ELSE pid,
          pInits |-> Append(pInits, override)]

\* scheduleReconnect(isFatalError) with the given retryCount and status
FatalStop_Never(isFatal, rc) == FALSE
FatalStop(isFatal, rc) == isFatal /\ rc > MAX_FATAL_RETRIES
RetryDelay(rc) ==
    IF statusRef = "RATE_LIMITED" THEN Ms(RATE_LIMIT_DELAY) ELSE BackoffDelay(rc)
ScheduleReconnect(isFatal, rc, stt) ==
    LET cleared == ClearRetry(pTimers, retryTimeout) IN
    IF FatalStop(isFatal, rc)
    THEN [status |-> "ERROR", pTimers |-> cleared, retryTimeout |-> 0, delay |-> NO_DELAY]
    ELSE [status |-> stt, delay |-> RetryDelay(rc), retryTimeout |-> Len(cleared) + 1,
          \* "rearmed": the call cancelled a retry that was still pending
          pTimers |-> Append(cleared, IF cleared # pTimers THEN "rearmed" ELSE "retry")]

\* the hook mounts: the "Initial Setup" effect and the watchdog effect run
PMount(sync) ==
    /\ ~mounted
    /\ watchdog' = TRUE
    /\ Len(pInits) < pCap.inits
    /\ mounted' = TRUE
    /\ pLast' = Last("mount", "none", FALSE, NO_DELAY)
    /\ IF peerRef = 0
       THEN LET r == InitGlobalPeer(NO_ID, peers, peerRef, peerId, status, sync) IN
            /\ retryCount' = 0
            /\ pFires' = 0 /\ pExpect' = 0
            /\ status' = r.status /\ peers' = r.peers /\ peerRef' = r.peerRef
            /\ peerId' = r.peerId /\ pInits' = r.pInits
       ELSE UNCHANGED <<retryCount, pFires, pExpect, status, peers, peerRef,
                        peerId, pInits>>
    /\ UNCHANGED <<statusRef, pTimers, retryTimeout>>
    /\ UNCHANGED peerFrame

\* the hook unmounts: the cleanups of those effects, destroyPeer() among them
PStop ==
    /\ mounted
    /\ watchdog' = FALSE
    /\ mounted' = FALSE
    /\ pLast' = Last("stop", "none", TRUE, NO_DELAY)
    /\ peers' = IF peerRef = 0 THEN peers
                ELSE Collect([peers EXCEPT ![peerRef] =
                                 Destroy([@ EXCEPT !.listeners = FALSE], TRUE)], 0)
    /\ peerRef' = 0
    /\ peerId' = NO_ID
    /\ pTimers' = ClearRetry(pTimers, retryTimeout)
    /\ retryTimeout' = 0
    /\ UNCHANGED <<status, statusRef, retryCount, pInits, pFires, pExpect>>
    /\ UNCHANGED peerFrame

\* the effect that copies status into statusRef after a render
PSyncRef ==
    /\ mounted
    /\ statusRef # status
    /\ statusRef' = status
    /\ UNCHANGED <<mounted, status, retryCount, pTimers, retryTimeout, peers, peerRef,
                   peerId, pInits, pLast, pFires, pExpect>>
    /\ UNCHANGED watchdog
    /\ UNCHANGED peerFrame

\* a suspended initGlobalPeer call runs on: new Peer(...), handlers, peerRef
PInitResume(k) ==
    /\ k \in DOMAIN pInits
    /\ Len(peers) < pCap.peers
    /\ peers' = Collect(Append(peers, NewPeer(IF pInits[k] = NO_ID THEN ORIGINAL_ID
                                               ELSE pInits[k])),
                        Len(peers) + 1)
    /\ peerRef' = Len(peers) + 1
    /\ pInits' = RemoveAt(pInits, k)
    /\ pLast' = Last("init-resume", "none", FALSE, NO_DELAY)
    /\ UNCHANGED <<mounted, status, statusRef, retryCount, pTimers, retryTimeout, peerId,
                   pFires, pExpect>>
    /\ UNCHANGED watchdog
    /\ UNCHANGED peerFrame

\* a suspended initGlobalPeer call throws: its catch block
PInitThrow(k) ==
    /\ k \in DOMAIN pInits
    /\ LET r == ScheduleReconnect(TRUE, retryCount, "ERROR") IN
       /\ status' = r.status /\ pTimers' = r.pTimers /\ retryTimeout' = r.retryTimeout
       /\ pLast' = Last("init-throw", "none", FALSE, r.delay)
    /\ pInits' = RemoveAt(pInits, k)
    /\ UNCHANGED <<mounted, statusRef, retryCount, peers, peerRef, peerId, pFires, pExpect>>
    /\ UNCHANGED watchdog
    /\ UNCHANGED peerFrame

\* the retry timer fires: retryCount.current++; initGlobalPeer()
FireCount_NoIncrement(rc) == rc
FireCount(rc) == rc + 1
PTimerFire(j, sync) ==
    /\ j \in DOMAIN pTimers
    /\ Len(pInits) < pCap.inits
    /\ pTimers' = RemoveAt(pTimers, j)
    /\ retryTimeout' = IF retryTimeout = j THEN 0
                       ELSE IF retryTimeout > j THEN retryTimeout - 1 ELSE retryTimeout
    /\ retryCount' = FireCount(retryCount)
    /\ pFires' = IF pFires < MAX_FATAL_RETRIES + 2 THEN pFires + 1 ELSE pFires
    /\ pExpect' = pExpect + 1
    /\ LET r == InitGlobalPeer(NO_ID, peers, peerRef, peerId, status, sync) IN
       /\ status' = r.status /\ peers' = r.peers /\ peerRef' = r.peerRef
       /\ peerId' = r.peerId /\ pInits' = r.pInits
    /\ pLast' = Last("fire", "none", FALSE, NO_DELAY)
    /\ UNCHANGED <<mounted, statusRef>>
    /\ UNCHANGED watchdog
    /\ UNCHANGED peerFrame

\* peer.on('open')
OpenCount(rc) == 0
POpen(i) ==
    /\ i \in DOMAIN peers
    /\ peers[i].listeners /\ peers[i].st = "connecting"
    /\ peers' = [peers EXCEPT ![i].st = "open"]
    /\ status' = "READY"
    /\ peerId' = peers[i].id
    /\ retryCount' = OpenCount(retryCount)
    /\ pFires' = 0 /\ pExpect' = 0
    /\ pLast' = Last("open", "none", FALSE, NO_DELAY)
    /\ UNCHANGED <<mounted, statusRef, pTimers, retryTimeout, peerRef, pInits>>
    /\ UNCHANGED watchdog
    /\ UNCHANGED peerFrame

\* peer.on('error')
PError(i, type, suffix, sync) ==
    /\ i \in DOMAIN peers
    /\ peers[i].listeners /\ ~IsDestroyed(peers[i])
    /\ IF type = "unavailable-id"
       THEN /\ peers[i].st = "connecting"
            /\ Len(pInits) < pCap.inits
            /\ LET r == InitGlobalPeer(FallbackId(suffix), peers, peerRef, peerId, status, sync) IN
               /\ status' = r.status /\ peers' = r.peers /\ peerRef' = r.peerRef
               /\ peerId' = r.peerId /\ pInits' = r.pInits
            /\ pLast' = Last("error", type, FALSE, NO_DELAY)
            /\ UNCHANGED <<retryCount, pTimers, retryTimeout, pFires, pExpect>>
       ELSE /\ suffix = 100 /\ sync
            /\ LET rc == IF type = "rate-limit" THEN RATE_LIMIT_RETRY_COUNT ELSE retryCount
                   r == ScheduleReconnect(TRUE, rc,
                            IF type = "rate-limit" THEN "RATE_LIMITED" ELSE "ERROR")
               IN /\ retryCount' = rc
                  /\ status' = r.status /\ pTimers' = r.pTimers
                  /\ retryTimeout' = r.retryTimeout
                  /\ pLast' = Last("error", type, FALSE, r.delay)
            /\ IF type = "rate-limit"
               THEN pExpect' = RATE_LIMIT_RETRY_COUNT
               ELSE UNCHANGED pExpect
            /\ UNCHANGED <<peers, peerRef, peerId, pInits, pFires>>
    /\ UNCHANGED <<mounted, statusRef>>
    /\ UNCHANGED watchdog
    /\ UNCHANGED peerFrame

\* peer.on('close'): the transport was destroyed, by the hook or by itself
PClose(i) ==
    /\ i \in DOMAIN peers
    /\ peers[i].listeners /\ peers[i].st # "closed"
    /\ peers' = Collect([peers EXCEPT ![i].st = "closed"], peerRef)
    /\ status' = "DISCONNECTED"
    /\ peerId' = NO_ID
    /\ pLast' = Last("close", "none", peers[i].st = "destroyed", NO_DELAY)
    /\ UNCHANGED <<mounted, statusRef, retryCount, pTimers, retryTimeout, peerRef, pInits,
                   pFires, pExpect>>
    /\ UNCHANGED watchdog
    /\ UNCHANGED peerFrame

\* peer.on('disconnected'): the signalling connection was lost
PDisconnected(i) ==
    /\ i \in DOMAIN peers
    /\ peers[i].listeners /\ peers[i].st = "open"
    /\ peers' = [peers EXCEPT ![i].st = "connecting"]
    /\ status' = "DISCONNECTED"
    /\ pLast' = Last("disconnected", "none", FALSE, NO_DELAY)
    /\ UNCHANGED <<mounted, statusRef, retryCount, pTimers, retryTimeout, peerRef, peerId,
                   pInits, pFires, pExpect>>
    /\ UNCHANGED watchdog
    /\ UNCHANGED peerFrame

\* forceReconnect()
PForceReconnect(sync) ==
    /\ mounted
    /\ Len(pInits) < pCap.inits
    /\ retryCount' = 0
    /\ pFires' = 0 /\ pExpect' = 0
    /\ LET closing == peerRef # 0 /\ ~IsDestroyed(peers[peerRef]) /\
                      peers[peerRef].listeners /\ sync
           prs == IF peerRef = 0 THEN peers
                  ELSE [peers EXCEPT ![peerRef] = Destroy(@, sync)]
           pid == IF closing THEN NO_ID ELSE peerId
           stt == IF closing THEN "DISCONNECTED" ELSE status
           r == InitGlobalPeer(NO_ID, prs, peerRef, pid, stt, sync)
       IN /\ status' = r.status /\ peers' = r.peers /\ peerRef' = r.peerRef
          /\ peerId' = r.peerId /\ pInits' = r.pInits
    /\ pLast' = Last("force", "none", TRUE, NO_DELAY)
    /\ UNCHANGED <<mounted, statusRef, pTimers, retryTimeout>>
    /\ UNCHANGED watchdog
    /\ UNCHANGED peerFrame

\* the window 'online' event
POnline(sync) ==
    /\ mounted
    /\ Len(pInits) < pCap.inits
    /\ pLast' = Last("online", "none", FALSE, NO_DELAY)
    /\ IF peerRef # 0 /\ IsDisconnected(peers[peerRef])
       THEN /\ peers' = [peers EXCEPT ![peerRef].st =
                            IF IsDestroyed(peers[peerRef]) THEN @ ELSE "connecting"]
            /\ UNCHANGED <<status, peerRef, peerId, pInits>>
       ELSE IF peerRef = 0
       THEN LET r == InitGlobalPeer(NO_ID, peers, peerRef, peerId, status, sync) IN
            /\ status' = r.status /\ peers' = r.peers /\ peerRef' = r.peerRef
            /\ peerId' = r.peerId /\ pInits' = r.pInits
       ELSE UNCHANGED <<status, peers, peerRef, peerId, pInits>>
    /\ UNCHANGED <<mounted, statusRef, retryCount, pTimers, retryTimeout, pFires, pExpect>>
    /\ UNCHANGED watchdog
    /\ UNCHANGED peerFrame

\* the watchdog interval fires
PWatchdog ==
    /\ watchdog
    /\ peers' = IF peerRef # 0 /\ IsDisconnected(peers[peerRef]) /\
                   ~IsDestroyed(peers[peerRef])
                THEN [peers EXCEPT ![peerRef].st = "connecting"]
                ELSE peers
    /\ UNCHANGED <<mounted, status, statusRef, retryCount, pTimers, retryTimeout, peerRef,
                   peerId, pInits, pLast, pFires, pExpect, watchdog>>
    /\ UNCHANGED peerFrame

\* the positions transports and suspended calls can have in any run
PeerIds == 1..WideCap.peers
InitIds == 1..WideCap.inits

NextPeer ==
    \/ \E sync \in BOOLEAN : PMount(sync)
    \/ PStop
    \/ PSyncRef
    \/ \E k \in InitIds : PInitResume(k)
    \/ \E k \in InitIds : PInitThrow(k)
    \/ \E j \in 1..2, sync \in BOOLEAN : PTimerFire(j, sync)
    \/ \E i \in PeerIds : POpen(i)
    \/ \E i \in PeerIds, type \in ErrorTypes, suffix \in Suffixes, sync \in BOOLEAN :
          PError(i, type, suffix, sync)
    \/ \E i \in PeerIds : PClose(i)
    \/ \E i \in PeerIds : PDisconnected(i)
    \/ \E sync \in BOOLEAN : PForceReconnect(sync)
    \/ \E sync \in BOOLEAN : POnline(sync)
    \/ PWatchdog

SpecPeer == InitNoKeys /\ [][NextPeer]_vars

\* the hook left to itself: its timers, its suspended calls and the events of
\* its transports, with no unmount, no forceReconnect and no 'online' event
NextPeerAuto ==
    \/ \E sync \in BOOLEAN : PMount(sync)
    \/ PSyncRef
    \/ \E k \in InitIds : PInitResume(k)
    \/ \E k \in InitIds : PInitThrow(k)
    \/ \E j \in 1..2, sync \in BOOLEAN : PTimerFire(j, sync)
    \/ \E i \in PeerIds : POpen(i)
    \/ \E i \in PeerIds, type \in ErrorTypes, suffix \in Suffixes, sync \in BOOLEAN :
          PError(i, type, suffix, sync)
    \/ \E i \in PeerIds : PClose(i)
    \/ \E i \in PeerIds : PDisconnected(i)
    \/ PWatchdog
SpecPeerAuto == InitNoKeys /\ [][NextPeerAuto]_vars

\* the same hook, followed one transport and one suspended call further
InitWide == InitRest /\ pCap = WideCap /\ \A p \in Providers : vault[p] = <<>>
SpecPeerWide == InitWide /\ [][NextPeer]_vars

PeerTypeOK ==
    /\ status \in {"INIT", "CONNECTING", "READY", "DISCONNECTED", "ERROR", "RATE_LIMITED"}
    /\ statusRef \in {"INIT", "CONNECTING", "READY", "DISCONNECTED", "ERROR", "RATE_LIMITED"}
    /\ retryCount \in 0..(MAX_FATAL_RETRIES + 1)
    /\ Len(peers) <= pCap.peers
    /\ Len(pInits) <= pCap.inits
    /\ peerRef \in 0..Len(peers)
    /\ retryTimeout \in 0..Len(pTimers)

\* ------------------------------------ useGlobalPeer: inbound connections
\* data.type of a message: the two handshake types and any other
MessageTypes == {"SYS", "HANDSHAKE_SYN", "CHAT"}
Recognised_Any(type) == TRUE
Recognised(type) == type = "SYS" \/ type = "HANDSHAKE_SYN"
\* a DataConnection: the types of the messages received on it, in order; a
\* closed one delivers nothing more
NewConn == [open |-> TRUE, log |-> <<>>]
CLOSED_CONN == [open |-> FALSE, log |-> <<>>]
inboundFrame == <<vaultVars, raceVars, seqVars, hvVars, backoffVars, ctxVars, peerVars,
                  moreVars>>

\* peer.on('connection')
PConnection(i) ==
    /\ i \in DOMAIN peers
    /\ peers[i].listeners /\ peers[i].st = "open"
    /\ Len(conns) < MaxConns
    /\ conns' = Append(conns, NewConn)
    /\ incoming' = [conn |-> Len(conns) + 1, firstData |-> NO_DATA,
                    status |-> "HANDSHAKING"]
    /\ UNCHANGED inboundFrame

\* conn.on('data')
PConnData(c, type) ==
    /\ c \in DOMAIN conns
    /\ conns[c].open
    /\ Len(conns[c].log) < MaxMsgs
    /\ conns' = [conns EXCEPT ![c].log = Append(@, type)]
    /\ incoming' = IF Recognised(type)
                   THEN [conn |-> c,
                         firstData |-> [type |-> type, from |-> c,
                                        seq |-> Len(conns[c].log) + 1],
                         status |-> "READY"]
                   ELSE incoming
    /\ UNCHANGED inboundFrame

\* conn.on('close')
PConnClose(c) ==
    /\ c \in DOMAIN conns
    /\ conns[c].open
    /\ conns' = [conns EXCEPT ![c] = CLOSED_CONN]
    /\ incoming' = NO_INCOMING
    /\ UNCHANGED inboundFrame

\* conn.on('error')
PConnError(c) ==
    /\ c \in DOMAIN conns
    /\ conns[c].open
    /\ incoming' = NO_INCOMING
    /\ UNCHANGED <<conns, inboundFrame>>

\* clearIncoming()
PClearIncoming ==
    /\ incoming # NO_INCOMING
    /\ incoming' = NO_INCOMING
    /\ UNCHANGED <<conns, inboundFrame>>

ConnIds == 1..MaxConns
NextInbound ==
    \/ \E sync \in BOOLEAN : PMount(sync)
    \/ \E k \in InitIds : PInitResume(k)
    \/ \E i \in PeerIds : POpen(i)
    \/ \E i \in PeerIds : PConnection(i)
    \/ \E c \in ConnIds, type \in MessageTypes : PConnData(c, type)
    \/ \E c \in ConnIds : PConnClose(c)
    \/ \E c \in ConnIds : PConnError(c)
    \/ PClearIncoming

SpecInbound == InitNoKeys /\ [][NextInbound]_vars

InboundTypeOK ==
    /\ Len(conns) <= MaxConns
    /\ incoming.conn \in 0..Len(conns)
    /\ incoming.status \in {"none", "HANDSHAKING", "READY"}

\* ------------------------------------------------- supervisor properties
\* a retry timer is pending
RetryPending == retryTimeout # 0 /\ Len(pTimers) >= 1
RateLimitedErrorHandled == pLast.ev = "error" /\ pLast.type = "rate-limit"

\* C15: whenever a transport error is classified as rate-limited, the retry
\* scheduled for it has a delay of at least the 60000 ms rate-limit cooldown,
\* whatever retryCount and the status before the error were.
C15_RateLimitDelayFloor ==
    RateLimitedErrorHandled =>
        RetryPending /\ RatLeq(Ms(RATE_LIMIT_DELAY), pLast.delay)

\* C17 as stated: right after the open handler retryCount is 0, and retryCount
\* equals the number of retry timer firings since the last open (or reset),
\* whatever the class of the failures in between.
C17_RetryCountCountsFires ==
    /\ pLast.ev = "open" => retryCount = 0
    /\ retryCount = pFires

\* C17 amended: right after the open handler retryCount is 0; a rate-limited
\* error sets it to RATE_LIMIT_RETRY_COUNT; otherwise it changes only by one
\* for each retry timer firing, so it equals the value it was last set to plus
\* the firings since.
C17_RetryCountAmended ==
    /\ pLast.ev = "open" => retryCount = 0
    /\ RateLimitedErrorHandled => retryCount = RATE_LIMIT_RETRY_COUNT
    /\ retryCount = pExpect
C17_Witness ==
    /\ pLast.ev = "fire"
    /\ retryCount = RATE_LIMIT_RETRY_COUNT + 1
    /\ pFires < retryCount

\* the error handler has just handled an identity collision
CollisionHandled == pLast.ev = "error" /\ pLast.type = "unavailable-id"

\* C18: an unavailable-id error makes the error handler itself start one new
\* open attempt with a derived identity (the original identity plus a numeric
\* suffix) within the handling of that error: no backoff timer is scheduled,
\* retryCount is not changed, and status does not pass through ERROR or
\* RATE_LIMITED.
C18_CollisionInlineStep ==
    \A i \in PeerIds, suffix \in Suffixes, sync \in BOOLEAN :
        PError(i, "unavailable-id", suffix, sync) =>
            /\ pInits' = Append(pInits, FallbackId(suffix))
            /\ FallbackId(suffix) = ORIGINAL_ID \o <<suffix>>
            /\ suffix \in 100..999
            /\ pTimers' = pTimers /\ retryTimeout' = retryTimeout
            /\ retryCount' = retryCount
            /\ status' = "CONNECTING"
            /\ pLast'.delay = NO_DELAY
C18_CollisionInline == [][C18_CollisionInlineStep]_vars
C18_Witness ==
    /\ CollisionHandled
    /\ status = "CONNECTING"
    /\ Len(pInits) = 1 /\ pInits[1] = FallbackId(100)

\* a transport error event has just been handled
ErrorHandled == pLast.ev = "error"
\* the collision remediation was started by the handler
InlineStarted ==
    /\ CollisionHandled
    /\ Len(pInits) >= 1
    /\ pInits[Len(pInits)] \in {FallbackId(suffix) : suffix \in Suffixes}
ExactlyOneRetry == Len(pTimers) = 1 /\ retryTimeout = 1

C20_CloseSchedulesRetry ==
    (pLast.ev = "close" /\ ~pLast.byUs) => RetryPending

\* the state the claim calls "attempt in progress, or READY with a live
\* transport"
Busy ==
    \/ status = "CONNECTING"
    \/ status = "READY" /\ peerRef # 0 /\ ~IsDisconnected(peers[peerRef])
\* a step in which initGlobalPeer() is called without an override identity and
\* with nothing else done to the transport first
StartCall ==
    \E sync \in BOOLEAN :
        \/ PMount(sync) /\ peerRef = 0
        \/ POnline(sync) /\ peerRef = 0
        \/ \E j \in 1..2 : PTimerFire(j, sync)

\* C21: start is idempotent: called while an attempt is in progress
\* (CONNECTING) or while READY with a live transport, it destroys no transport,
\* starts no attempt and changes no state.
C21_StartIdempotent ==
    [][(StartCall /\ Busy) =>
          /\ pInits' = pInits /\ peers' = peers /\ peerRef' = peerRef
          /\ status' = status /\ peerId' = peerId]_vars

\* destroyPeer has just returned
StopReturned == pLast.ev = "stop"
\* what stop leaves of the transport and the timers
TornDown ==
    /\ peerRef = 0
    /\ peerId = NO_ID
    /\ pTimers = <<>> /\ retryTimeout = 0
    /\ ~watchdog

\* C22: after stop (destroyPeer) returns, the transport is torn down and not
\* referenced, no retry timer and no watchdog timer is pending, and status is
\* a terminal idle state, neither CONNECTING nor READY.
C22_StopLeavesIdle ==
    StopReturned => TornDown /\ status \notin {"CONNECTING", "READY"}
\* the transport and timer part alone (this part holds)
StopTearsDown == StopReturned => TornDown

\* forceReconnect has just returned
ForceReturned == pLast.ev = "force"
\* the transport peerRef holds, if any, is destroyed
CurrentDiscarded == peerRef = 0 \/ IsDestroyed(peers[peerRef])
\* the call suspended last is an open attempt with the original identity
OriginalAttemptStarted == Len(pInits) >= 1 /\ pInits[Len(pInits)] = NO_ID

\* C23: from any status (CONNECTING included), forceReconnect sets retryCount
\* to 0, discards the current transport and starts a new open attempt with the
\* original identity, never a fallback one.
C23_ForceReconnectRestarts ==
    ForceReturned =>
        retryCount = 0 /\ CurrentDiscarded /\ OriginalAttemptStarted

\* the transports that were created and are not destroyed
LivePeers == {i \in DOMAIN peers : ~IsDestroyed(peers[i])}
\* some event of transport i is delivered to its handler
EventOf(i) ==
    \/ POpen(i) \/ PClose(i) \/ PDisconnected(i)
    \/ \E type \in ErrorTypes, suffix \in Suffixes, sync \in BOOLEAN :
          PError(i, type, suffix, sync)
\* there are never two live transports
OneLiveTransport == Cardinality(LivePeers) <= 1

\* C24: at any time at most one transport is live, and an event delivered by a
\* transport that is not the one peerRef holds changes neither status,
\* retryCount nor peerId and schedules no retry.
C24_SingleAuthoritativeTransport ==
    /\ []OneLiveTransport
    /\ [][\A i \in PeerIds :
             (EventOf(i) /\ i # peerRef) =>
                 UNCHANGED <<status, retryCount, peerId, pTimers, retryTimeout>>]_vars

\* ---------------------------------------------------- inbound properties
\* the positions of the handshake messages connection c has received
HandshakesOn(c) ==
    {n \in DOMAIN conns[c].log : conns[c].log[n] \in {"SYS", "HANDSHAKE_SYN"}}

\* C25: an inbound connection is held as HANDSHAKING with no payload until a
\* message of type SYS or HANDSHAKE_SYN is received on it; the request is READY
\* only with such a message, received on that same connection, stored as its
\* payload; a message of another type never promotes it.
C25_HandshakePromotion ==
    /\ incoming.status = "HANDSHAKING" =>
          /\ incoming.conn # NO_CONN
          /\ incoming.firstData = NO_DATA
          /\ HandshakesOn(incoming.conn) = {}
    /\ incoming.status = "READY" =>
          /\ incoming.conn # NO_CONN
          /\ incoming.firstData.from = incoming.conn
          /\ incoming.firstData.seq \in HandshakesOn(incoming.conn)
          /\ incoming.firstData.type =
                conns[incoming.conn].log[incoming.firstData.seq]
C25_Witness ==
    /\ incoming.status = "READY"
    /\ conns[incoming.conn].log = <<"CHAT", "HANDSHAKE_SYN">>
    /\ incoming.firstData.seq = 2

\* C26: the single slot holds the inbound connection that arrived last: once
\* a newer connection has arrived, the slot does not refer to an earlier one.
C26_LastWriterWins ==
    incoming.conn # NO_CONN => incoming.conn = Len(conns)

\* ----------------------------------------------------- recovery property
\* something is still going to make an attempt, or has succeeded: a retry
\* timer is pending, an initGlobalPeer call is in progress, or a transport is
\* live and can still deliver an event
RecoveryUnderWay ==
    \/ pTimers # <<>>
    \/ pInits # <<>>
    \/ LivePeers # {}

\* C27: the supervisor recovers without caller action: in every state reached
\* through transport errors, drops, rate limiting or collisions, with no stop()
\* call, a new open or reconnect attempt is still going to be made.
C27_RecoversInternally == mounted => RecoveryUnderWay

\* ------------------------------------------------- cancellation property
\* C28: in streamExecute, once the call's signal has fired, no further content
\* or status chunk is yielded, no further candidate is dispatched, and no
\* failure is reported to the key pool.
C28_AbortSuppressesEffects ==
    [][sSignal =>
          /\ sOut' = sOut
          /\ attempts' = attempts
          /\ sReports' = sReports /\ vault' = vault]_vars

\* ------------------------------------------ HanisahKernel.buildContext
MaxHist == 3
\* lengths, in characters, of the strings handed to estimateTokens: an
\* entry's content (or the JSON text of its parts), the current message and
\* the system prompt; and the context limits of the models (the call site
\* replaces a missing or zero limit by 128000, so every limit is positive)
ContentLens == {5, 7996, 8000}
MsgLens == {0, 7992}
PromptLens == {0, 8000}
Limits == {4000, 6000, 8001, 12000}
HEADROOM == 4000

\* estimateTokens: Math.ceil(text.length / 4)
EstimateTokens(len) == (len + 3) \div 4
\* Math.max(4000, limit - 4000)
MaxInputTokens(limit) == IF limit - HEADROOM > 4000 THEN limit - HEADROOM ELSE 4000
\* usedTokens + tokens < maxInputTokens
Fits(used, tokens, max) == used + tokens < max
\* messagesToSend.unshift(entry)
Unshift_Push(arr, entry) == Append(arr, entry)
Unshift(arr, entry) == <<entry>> \o arr

\* a history array: entry i is the i-th oldest object, id is its identity
HistoryOf(lens) == [i \in DOMAIN lens |-> [id |-> i, len |-> lens[i]]]
Histories == {HistoryOf(lens) : lens \in UNION {[1..n -> ContentLens] : n \in 0..MaxHist}}

ctxFrame == <<vaultVars, raceVars, seqVars, hvVars, backoffVars, inboundVars, peerVars,
              moreVars>>

\* entry of buildContext up to the loop head: i = history.length - 1
CtxCall(h, msg, prompt, limit) ==
    /\ cPc = "idle"
    /\ Len(h) <= MaxHist
    /\ cStored' = h
    /\ cHistory' = h
    /\ cMsg' = msg
    /\ cPrompt' = prompt
    /\ cLimit' = limit
    /\ cUsed' = EstimateTokens(prompt) + EstimateTokens(msg)
    /\ cSend' = <<>>
    /\ cI' = Len(h)
    /\ cPc' = "walk"
    /\ UNCHANGED ctxFrame

\* one iteration whose entry fits: unshift, add its tokens, i--
CtxKeep ==
    /\ cPc = "walk"
    /\ cI >= 1
    /\ Fits(cUsed, EstimateTokens(cStored[cI].len), MaxInputTokens(cLimit))
    /\ cSend' = Unshift(cSend, cStored[cI])
    /\ cUsed' = cUsed + EstimateTokens(cStored[cI].len)
    /\ cI' = cI - 1
    /\ UNCHANGED <<cPc, cHistory, cStored, cMsg, cPrompt, cLimit>>
    /\ UNCHANGED ctxFrame

\* one iteration whose entry does not fit: break, return messagesToSend
CtxBreak ==
    /\ cPc = "walk"
    /\ cI >= 1
    /\ ~Fits(cUsed, EstimateTokens(cStored[cI].len), MaxInputTokens(cLimit))
    /\ cPc' = "done"
    /\ UNCHANGED <<cHistory, cStored, cMsg, cPrompt, cLimit, cI, cUsed, cSend>>
    /\ UNCHANGED ctxFrame

\* the loop ran off the oldest entry (i < 0): return messagesToSend
CtxReturn ==
    /\ cPc = "walk"
    /\ cI = 0
    /\ cPc' = "done"
    /\ UNCHANGED <<cHistory, cStored, cMsg, cPrompt, cLimit, cI, cUsed, cSend>>
    /\ UNCHANGED ctxFrame

NextCtx ==
    \/ \E h \in Histories, msg \in MsgLens, prompt \in PromptLens, limit \in Limits :
          CtxCall(h, msg, prompt, limit)
    \/ CtxKeep
    \/ CtxBreak
    \/ CtxReturn

SpecCtx == InitNoKeys /\ [][NextCtx]_vars

RECURSIVE SumTokens(_)
SumTokens(arr) ==
    IF arr = <<>> THEN 0 ELSE EstimateTokens(Head(arr).len) + SumTokens(Tail(arr))

\* the estimated tokens of prompt, message and the newest k entries
CostOfNewest(k) ==
    ((cPrompt + 3) \div 4) + ((cMsg + 3) \div 4)
        + SumTokens(SubSeq(cHistory, Len(cHistory) - k + 1, Len(cHistory)))

\* C29: buildContext returns a contiguous suffix of the stored history in its
\* original oldest-first order, stops at the first entry (newest to oldest)
\* that does not fit, and leaves the stored history unchanged.
C29_ContiguousSuffix ==
    cPc = "done" =>
        LET n == Len(cHistory)
            k == Len(cSend)
            budget == IF cLimit - 4000 > 4000 THEN cLimit - 4000 ELSE 4000
        IN  /\ k <= n
            /\ cSend = SubSeq(cHistory, n - k + 1, n)
            /\ \A j \in 1..k : cSend[j].id = n - k + j
            /\ k > 0 => CostOfNewest(k) < budget
            /\ k < n => ~(CostOfNewest(k + 1) < budget)
            /\ cStored = cHistory

\* a walk that kept two entries and stopped at a third that did not fit
C29_Witness ==
    /\ cPc = "done"
    /\ Len(cSend) >= 2
    /\ Len(cSend) < Len(cStored)

\* C30: for every history, message, prompt and limit L (small ones included),
\* whenever entries are retained, prompt plus message plus the retained
\* entries stay under L - 4000 estimated tokens.
C30_FitsBudget ==
    (cPc = "done" /\ cSend # <<>>) =>
        ((cPrompt + 3) \div 4) + ((cMsg + 3) \div 4) + SumTokens(cSend) < cLimit - 4000

\* ---------------------------------------------- lightweight reconnect
\* the step calls reconnect() on transport i
ReconnectCalledOn(i) ==
    \/ /\ PWatchdog
       /\ i = peerRef /\ IsDisconnected(peers[i]) /\ ~IsDestroyed(peers[i])
    \/ /\ \E sync \in BOOLEAN : POnline(sync)
       /\ i = peerRef /\ IsDisconnected(peers[i])
    \/ PDisconnected(i)

\* C31: reconnect() is only ever called on a transport that is not destroyed,
\* by the watchdog, the disconnected handler and the online handler alike.
C31_ReconnectOnlyOnLive ==
    [][\A i \in PeerIds :
          (i \in DOMAIN peers /\ ReconnectCalledOn(i)) => ~IsDestroyed(peers[i])]_vars

\* ------------------------------- the rolling history over several calls
MaxCalls == 2
\* what the j-th earlier call that produced output left in the history
PriorTurn(j) == << [role |-> "user", text |-> << <<0, 0 - j>> >>],
                   [role |-> "model", text |-> << <<0 - j, 1>> >>] >>
PriorHistory(n) == [j \in 1..(2 * n) |-> PriorTurn((j + 1) \div 2)[2 - (j % 2)]]
\* the kernel object after no, 24 or 25 earlier calls that produced output,
\* with one local GROQ key in the pool
HistStarts == {PriorHistory(n) : n \in {0, (HISTORY_LIMIT \div 2) - 1, HISTORY_LIMIT \div 2}}

InitHist ==
    /\ now = 0
    /\ vault = RefreshPools([p \in Providers |-> IF p = "GROQ" THEN 1 ELSE 0], FALSE)
    /\ counters = [p \in Providers |-> 0]
    /\ InitRace /\ InitCall /\ InitHv /\ InitPeer /\ InitBackoff /\ InitInbound
    /\ InitCtx /\ InitMore
    /\ pCap = NarrowCap
    /\ history \in HistStarts

\* the next streamExecute call on the same kernel object
SeqAgain ==
    /\ sPc = "done"
    /\ sCalls + 1 < MaxCalls
    /\ sCalls' = sCalls + 1
    /\ sPc' = "init"
    /\ plan' = <<>>
    /\ sI' = 0
    /\ sKey' = NULL
    /\ sPath' = "none"
    /\ attempts' = 0
    /\ hasYielded' = FALSE
    /\ sSignal' = FALSE
    /\ fullText' = <<>>
    /\ emittedS' = 0
    /\ sOut' = <<>>
    /\ sLog' = <<>>
    /\ netCalls' = 0
    /\ sReports' = {}
    /\ UNCHANGED <<vaultVars, raceVars, history, hvVars, peerVars, backoffVars,
                   inboundVars, ctxVars, fetchVars, linkVars, liveVars>>

NextHist ==
    \/ \E m \in InitialModels : SeqStart(m)
    \/ \E err \in SeqErrors : SeqFail(err)
    \/ SeqAbortFail
    \/ SeqConnected
    \/ SeqChunk
    \/ SeqStreamEnd
    \/ SeqNext
    \/ SeqReturn
    \/ SeqAbort
    \/ SeqAgain

SpecHist == InitHist /\ [][NextHist]_vars

\* the newest HISTORY_LIMIT entries of h followed by one user and one model entry
Appended(h, user, assistant) ==
    LET h2 == h \o << [role |-> "user", text |-> user],
                      [role |-> "model", text |-> assistant] >>
        n == Len(h2)
    IN [k \in 1..(IF n > 50 THEN 50 ELSE n) |-> h2[k + (IF n > 50 THEN n - 50 ELSE 0)]]

\* the step in which a candidate's branch returns after the call yielded output
ReturnsAfterOutput ==
    /\ sPc = "streaming" /\ sPc' = "done"
    /\ hasYielded
    /\ sLog'[sI].outcome \in {"succeeded", "returned"}

\* C32: the stored history never holds more than 50 entries; it changes only
\* in a call that has yielded output, and the step in which such a call's
\* candidate returns appends one user entry and one model entry with the
\* accumulated text to the newest entries, in order, dropping the oldest
\* entries beyond 50.
C32_RollingHistory ==
    /\ [](Len(history) <= 50)
    /\ [][(history' # history \/ ReturnsAfterOutput) =>
             /\ hasYielded
             /\ history' = Appended(history, USER_MSG, fullText)]_vars

\* a second call appended to a full history
C32_Witness ==
    /\ sCalls >= 1
    /\ sPc = "done"
    /\ hasYielded
    /\ Len(history) = 50
    /\ history[50] = [role |-> "model", text |-> fullText]
    /\ history[1].text = << <<0, 0 - 2>> >>

\* ------------------------------------------------------ fetchWithBackoff
MaxRetries == 3
\* the defaults of the parameters, which the one call site leaves in place
DEFAULT_RETRIES == 3
DEFAULT_BACKOFF_MS == 1000
\* the retries and backoffMs arguments tried
RetryArgs == 1..MaxRetries
BackoffArgs == {DEFAULT_BACKOFF_MS, 250}
\* how a fetch() settles: a rejection or a response with a status
NETWORK_ERROR == [kind |-> "rejected", status |-> 0]
Statuses == {200, 404, 500, 503}
Response(code) == [kind |-> "response", status |-> code]
\* res.ok
Ok(code) == 200 <= code /\ code <= 299
\* if (!res.ok && res.status >= 500) throw
ServerError(code) == ~Ok(code) /\ code >= 500
\* if (retries <= 1) throw err
LastAttempt_OneMore(retries) == retries <= 0
LastAttempt(retries) == retries <= 1

fetchFrame == <<vaultVars, raceVars, seqVars, hvVars, peerVars, backoffVars, inboundVars,
                ctxVars, callVars, linkVars, liveVars>>

\* generateText calls fetchWithBackoff: the first fetch() is under way
FCall(retries, backoffMs) ==
    /\ fPc = "idle"
    /\ fArgs' = [retries |-> retries, backoffMs |-> backoffMs]
    /\ fRetries' = retries
    /\ fBackoff' = backoffMs
    /\ fPc' = "fetching"
    /\ UNCHANGED <<fOutcomes, fWaits, fResult>>
    /\ UNCHANGED fetchFrame

\* the catch block, entered with what the try block threw
FCatch(outcome) ==
    IF LastAttempt(fRetries)
    THEN /\ fPc' = "thrown"
         /\ fResult' = outcome
         /\ UNCHANGED fWaits
    ELSE /\ fPc' = "waiting"
         /\ fWaits' = Append(fWaits, fBackoff)
         /\ UNCHANGED fResult

\* fetch() resolves with a response
FResponse(code) ==
    /\ fPc = "fetching"
    /\ fOutcomes' = Append(fOutcomes, Response(code))
    /\ IF ServerError(code)
       THEN FCatch(Response(code))
       ELSE /\ fPc' = "returned"
            /\ fResult' = Response(code)
            /\ UNCHANGED fWaits
    /\ UNCHANGED <<fRetries, fBackoff, fArgs>>
    /\ UNCHANGED fetchFrame

\* fetch() rejects
FReject ==
    /\ fPc = "fetching"
    /\ fOutcomes' = Append(fOutcomes, NETWORK_ERROR)
    /\ FCatch(NETWORK_ERROR)
    /\ UNCHANGED <<fRetries, fBackoff, fArgs>>
    /\ UNCHANGED fetchFrame

\* the setTimeout of the catch block fires: the recursive call's fetch()
FRetry ==
    /\ fPc = "waiting"
    /\ fRetries' = fRetries - 1
    /\ fBackoff' = fBackoff * 2
    /\ fPc' = "fetching"
    /\ UNCHANGED <<fArgs, fOutcomes, fWaits, fResult>>
    /\ UNCHANGED fetchFrame

NextFetch ==
    \/ \E retries \in RetryArgs, backoffMs \in BackoffArgs : FCall(retries, backoffMs)
    \/ \E code \in Statuses : FResponse(code)
    \/ FReject
    \/ FRetry

SpecFetch == InitNoKeys /\ [][NextFetch]_vars

\* fetch() calls made so far
FetchAttempts == Len(fOutcomes) + (IF fPc = "fetching" THEN 1 ELSE 0)
\* a rejection or a 5xx response
Retryable(o) == o.kind = "rejected" \/ (o.kind = "response" /\ o.status >= 500)
RECURSIVE Doubled(_, _)
Doubled(ms, k) == IF k = 0 THEN ms ELSE 2 * Doubled(ms, k - 1)

\* C33: fetchWithBackoff makes at most `retries` fetch attempts; the waits
\* start at backoffMs and double; every attempt that was followed by another
\* ended in a rejection or a 5xx response; any other response is returned at
\* once; after the last attempt failed its error is thrown.
C33_FetchWithBackoff ==
    fPc # "idle" =>
        /\ FetchAttempts <= fArgs.retries
        /\ \A k \in DOMAIN fWaits : fWaits[k] = Doubled(fArgs.backoffMs, k - 1)
        /\ Len(fWaits) = (IF fPc = "waiting" THEN FetchAttempts ELSE FetchAttempts - 1)
        /\ \A k \in DOMAIN fOutcomes :
              (k < Len(fOutcomes) \/ fPc \in {"waiting", "fetching", "thrown"})
                  => Retryable(fOutcomes[k])
        /\ fPc = "returned" =>
              /\ ~Retryable(fOutcomes[Len(fOutcomes)])
              /\ fResult = fOutcomes[Len(fOutcomes)]
        /\ fPc = "thrown" =>
              /\ Len(fOutcomes) = fArgs.retries
              /\ fResult = fOutcomes[Len(fOutcomes)]
        /\ (fOutcomes # <<>> /\ ~Retryable(fOutcomes[Len(fOutcomes)])) => fPc = "returned"

\* the default call failed three times, after waits of 1000 and 2000 ms
C33_Witness ==
    /\ fPc = "thrown"
    /\ fArgs = [retries |-> DEFAULT_RETRIES, backoffMs |-> DEFAULT_BACKOFF_MS]
    /\ fWaits = <<1000, 2000>>
    /\ Len(fOutcomes) = 3

\* ----------------------------------------------------- NeuralLinkService
MaxSetups == 3
\* a session setup (initializeSession and the socket it dials) is "dialing",
\* "cut" (still dialing, but disconnect() has run since it started), "open",
\* "failed" (initializeSession threw) or "closed"
SetupIds == 1..(MaxSetups + 1)
Dialing(i) == i \in DOMAIN lSetups /\ lSetups[i] \in {"dialing", "cut"}

\* disconnect(silent): the flags, this.session, the status callback
Disconnect(connecting, setups, session, st, silent) ==
    [isConnecting |-> FALSE,
     isConnected |-> FALSE,
     lSetups |-> [k \in DOMAIN setups |->
                     IF k = session /\ setups[k] = "open" THEN "closed"
                     ELSE IF setups[k] = "dialing" THEN "cut"
                     ELSE setups[k]],
     lSession |-> 0,
     lStatus |-> IF silent THEN st ELSE "IDLE"]

linkFrame == <<vaultVars, raceVars, seqVars, hvVars, peerVars, backoffVars, inboundVars,
               ctxVars, callVars, fetchVars, liveVars>>

\* connect(config) up to the first await of initializeSession
LConnect ==
    /\ Len(lSetups) < MaxSetups
    /\ IF isConnecting \/ isConnected
       THEN UNCHANGED linkVars
       ELSE LET d == Disconnect(TRUE, lSetups, lSession, lStatus, TRUE) IN
            /\ isConnecting' = d.isConnecting
            /\ isConnected' = d.isConnected
            /\ lSession' = d.lSession
            /\ lStatus' = "CONNECTING"
            /\ lSetups' = Append(d.lSetups, "dialing")
    /\ UNCHANGED linkFrame

\* callbacks.onopen of setup i, then this.session = await sessionPromise
LOpen(i) ==
    /\ Dialing(i)
    /\ isConnecting' = FALSE
    /\ isConnected' = TRUE
    /\ lStatus' = "ACTIVE"
    /\ lSetups' = [lSetups EXCEPT ![i] = "open"]
    /\ lSession' = i
    /\ UNCHANGED linkFrame

\* initializeSession of setup i throws: the catch block of connect
LSetupFail(i) ==
    /\ Dialing(i)
    /\ LET d == Disconnect(isConnecting, [lSetups EXCEPT ![i] = "failed"], lSession,
                           "ERROR", FALSE) IN
       /\ isConnecting' = d.isConnecting
       /\ isConnected' = d.isConnected
       /\ lSetups' = d.lSetups
       /\ lSession' = d.lSession
       /\ lStatus' = d.lStatus
    /\ UNCHANGED linkFrame

\* callbacks.onerror of the socket of setup i
LSocketError(i) ==
    /\ i \in DOMAIN lSetups /\ lSetups[i] \in {"dialing", "cut", "open"}
    /\ IF isConnected \/ isConnecting
       THEN LET d == Disconnect(isConnecting, lSetups, lSession, "ERROR", FALSE) IN
            /\ isConnecting' = d.isConnecting
            /\ isConnected' = d.isConnected
            /\ lSetups' = [d.lSetups EXCEPT ![i] = IF @ = "open" THEN "closed" ELSE "failed"]
            /\ lSession' = d.lSession
            /\ lStatus' = d.lStatus
       ELSE /\ lSetups' = [lSetups EXCEPT ![i] = IF @ = "open" THEN "closed" ELSE "failed"]
            /\ UNCHANGED <<isConnecting, isConnected, lSession, lStatus>>
    /\ UNCHANGED linkFrame

\* callbacks.onclose of the socket of setup i
LSocketClose(i) ==
    /\ i \in DOMAIN lSetups /\ lSetups[i] = "open"
    /\ LET d == Disconnect(isConnecting, [lSetups EXCEPT ![i] = "closed"], lSession,
                           lStatus, FALSE) IN
       /\ isConnecting' = d.isConnecting
       /\ isConnected' = d.isConnected
       /\ lSetups' = d.lSetups
       /\ lSession' = d.lSession
       /\ lStatus' = d.lStatus
    /\ UNCHANGED linkFrame

\* disconnect() called by the owner of the service
LDisconnect ==
    /\ LET d == Disconnect(isConnecting, lSetups, lSession, lStatus, FALSE) IN
       /\ isConnecting' = d.isConnecting
       /\ isConnected' = d.isConnected
       /\ lSetups' = d.lSetups
       /\ lSession' = d.lSession
       /\ lStatus' = d.lStatus
    /\ UNCHANGED linkFrame

NextLink ==
    \/ LConnect
    \/ \E i \in SetupIds : LOpen(i)
    \/ \E i \in SetupIds : LSetupFail(i)
    \/ \E i \in SetupIds : LSocketError(i)
    \/ \E i \in SetupIds : LSocketClose(i)
    \/ LDisconnect

SpecLink == InitNoKeys /\ [][NextLink]_vars

\* setup i is in progress: started and not yet opened, failed or disconnected
InProgress(i) == i \in DOMAIN lSetups /\ lSetups[i] = "dialing"

\* C34: while an earlier connect call is still in progress a further connect
\* call is a no-op, so at most one session setup is in flight at any time.
C34_NoOverlappingConnect ==
    [][(Len(lSetups') > Len(lSetups)) => \A i \in SetupIds : ~InProgress(i)]_vars

\* --------------------------------------------------- LiveSessionProvider
MaxStarts == 3
WATCHDOG_MS == 15000

liveFrame == <<vaultVars, raceVars, seqVars, hvVars, peerVars, backoffVars, inboundVars,
               ctxVars, callVars, fetchVars, linkVars>>

\* the test of the watchdog callback: `status` is the value of the render in
\* which startSession was created
WatchdogSees(seen, current) == seen = "CONNECTING"

\* startSession(persona) up to its first await
VStart ==
    /\ ~vIsLive
    /\ vStarts < MaxStarts
    /\ vStarts' = vStarts + 1
    /\ vIsLive' = TRUE
    /\ vStatus' = "CONNECTING"
    /\ vWatchdog' = [armed |-> TRUE, seen |-> vStatus]
    /\ vPending' = vPending + 1
    /\ vLast' = "start"
    /\ UNCHANGED vSocket
    /\ UNCHANGED liveFrame

\* getSystemInstruction resolved: neuralLink.current.connect(...), which calls
\* onStatusChange('CONNECTING') unless the service is connected
VConnect ==
    /\ vPending > 0
    /\ vPending' = vPending - 1
    /\ IF vSocket = "active"
       THEN UNCHANGED <<vStatus, vSocket>>
       ELSE vStatus' = "CONNECTING" /\ vSocket' = "dialing"
    /\ vLast' = "connect"
    /\ UNCHANGED <<vIsLive, vWatchdog, vStarts>>
    /\ UNCHANGED liveFrame

\* getSystemInstruction rejected: the catch block of startSession
VThrow ==
    /\ vPending > 0
    /\ vPending' = vPending - 1
    /\ vWatchdog' = NO_WATCHDOG
    /\ vIsLive' = FALSE
    /\ vStatus' = "ERROR"
    /\ vLast' = "throw"
    /\ UNCHANGED <<vSocket, vStarts>>
    /\ UNCHANGED liveFrame

\* the socket opened: onStatusChange('ACTIVE')
VActive ==
    /\ vSocket = "dialing"
    /\ vSocket' = "active"
    /\ vWatchdog' = NO_WATCHDOG
    /\ vStatus' = "ACTIVE"
    /\ vLast' = "active"
    /\ UNCHANGED <<vIsLive, vPending, vStarts>>
    /\ UNCHANGED liveFrame

\* the setup failed or the socket reported an error: onStatusChange('ERROR'),
\* then the service's disconnect() calls onStatusChange('IDLE')
VError ==
    /\ vSocket \in {"dialing", "active"}
    /\ vSocket' = "none"
    /\ vWatchdog' = NO_WATCHDOG
    /\ vIsLive' = FALSE
    /\ vStatus' = "IDLE"
    /\ vLast' = "error"
    /\ UNCHANGED <<vPending, vStarts>>
    /\ UNCHANGED liveFrame

\* stopSession(), with what it changes
StopSession(st) ==
    [vWatchdog |-> NO_WATCHDOG,
     vSocket |-> IF vSocket = "active" THEN "none" ELSE vSocket,
     vIsLive |-> FALSE,
     vStatus |-> st]

\* stopSession() called by the user
VStop ==
    /\ LET r == StopSession("IDLE") IN
       /\ vWatchdog' = r.vWatchdog
       /\ vSocket' = r.vSocket
       /\ vIsLive' = r.vIsLive
       /\ vStatus' = r.vStatus
    /\ vLast' = "stop"
    /\ UNCHANGED <<vPending, vStarts>>
    /\ UNCHANGED liveFrame

\* the watchdog timeout fires, WATCHDOG_MS after the start that armed it
VTimeout ==
    /\ vWatchdog.armed
    /\ IF WatchdogSees(vWatchdog.seen, vStatus)
       THEN LET r == StopSession("ERROR") IN
            /\ vSocket' = r.vSocket
            /\ vIsLive' = r.vIsLive
            /\ vStatus' = r.vStatus
       ELSE UNCHANGED <<vSocket, vIsLive, vStatus>>
    /\ vWatchdog' = NO_WATCHDOG
    /\ vLast' = "timeout"
    /\ UNCHANGED <<vPending, vStarts>>
    /\ UNCHANGED liveFrame

NextLive ==
    \/ VStart
    \/ VConnect
    \/ VThrow
    \/ VActive
    \/ VError
    \/ VStop
    \/ VTimeout

SpecLive == InitNoKeys /\ [][NextLive]_vars

\* C35: when the watchdog fires, 15 s after the start, with the status still
\* CONNECTING, the session is stopped and the status becomes ERROR; and a
\* step that makes the status ACTIVE or ERROR, or stops the session, leaves
\* no watchdog pending.
C35_WatchdogTimesOut ==
    [][/\ (vWatchdog.armed /\ vLast' = "timeout" /\ vStatus = "CONNECTING")
            => (vStatus' = "ERROR" /\ ~vIsLive')
       /\ (vLast' \in {"active", "error", "throw", "stop"}) => ~vWatchdog'.armed]_vars

\* ------------------------------------------ further supervisor properties
\* C36: whenever the status is READY and the transport peerRef holds is open,
\* retryCount is 0.
C36_ReadyMeansZeroBudget ==
    (status = "READY" /\ peerRef # 0 /\ peers[peerRef].st = "open") => retryCount = 0

\* C37: at most one retry timer is pending at any time.
C37_OneRetryPending == Len(pTimers) <= 1

\* a scheduleReconnect call found a retry pending and left only its own
C37_Witness == pTimers = <<"rearmed">> /\ retryTimeout = 1

\* C38: while the hook is stopped (after destroyPeer, before the next start)
\* no transport object is created and no retry timer is armed.
C38_StoppedStaysStopped ==
    [][(~mounted /\ ~mounted') =>
          /\ Len(peers') = Len(peers)
          /\ pTimers' # pTimers => Len(pTimers') < Len(pTimers)]_vars

\* ------------------------------------------------ superseded connections
\* the step is a data, close or error event of inbound connection c
ConnEvent(c) ==
    \/ \E type \in MessageTypes : PConnData(c, type)
    \/ PConnClose(c)
    \/ PConnError(c)

\* C39: a data, close or error event of a connection older than the one the
\* incomingConnection slot holds leaves the slot as it is.
C39_SupersededLeavesSlot ==
    [][\A c \in ConnIds :
          (ConnEvent(c) /\ incoming.conn # NO_CONN /\ c < incoming.conn)
              => incoming' = incoming]_vars

\* ----------------------------------------------- overlapping cooldowns
\* C40: a reportFailure on a credential that is in COOLDOWN does not move its
\* cooldown expiry to an earlier time.
C40_CooldownNeverShortened ==
    (/\ hvLast.op = "reportFailure"
     /\ FindRecord(hvLast.before[hvLast.p], hvLast.key) # 0
     /\ RecordBefore(hvLast.p, hvLast.key).status = "COOLDOWN"
     /\ FindRecord(vault[hvLast.p], hvLast.key) # 0)
        => RecordOf(hvLast.p, hvLast.key).cooldownUntil
               >= RecordBefore(hvLast.p, hvLast.key).cooldownUntil

====
